---- MODULE Spec2Model ----
(***************************************************************************)
(* State-machine model of the hyperwhisper-fly edge gateway: the credit    *)
(* ledger (device balances, IP daily usage, license cache), the request    *)
(* lifecycle of POST /transcribe and POST /post-process, and the streaming *)
(* session of GET /ws/streaming-deepgram.                                  *)
(*                                                                         *)
(* Number representation (all integers):                                   *)
(*   credits      hundredths of a credit ("cc"); 1 credit = 100 cc         *)
(*   USD          micro-dollars; roundUsd keeps 6 decimals, so every cost  *)
(*                the program handles after roundUsd is a whole number     *)
(*   durations    milliseconds                                             *)
(* Math.round is round-half-up (floor(x + 1/2)).  Arithmetic is exact: the *)
(* Number.EPSILON nudges of the source, which absorb binary floating-point *)
(* error, change no result on the amounts used here.                       *)
(***************************************************************************)
EXTENDS Integers, Sequences, FiniteSets, TLC

\* ------------------------------------------------------------------ bounds
NumProcs == 2      \* concurrently running ledger operations
MaxOps == 3        \* ledger operations started in one behaviour
MaxRequests == 1   \* requests served one after another in one behaviour
MaxMsgs == 2       \* vendor messages received in one streaming session
MaxRetryCap == 3   \* largest maxRetries callWithRetry is given on its own
MaxEntries == 3    \* entries a composed vocabulary hint is made of
MaxPieces == 3     \* pieces a composed vendor output is made of
MaxAuthCalls == 2  \* validateAuth calls made one after another for one key
MaxErrorEvents == 1 \* error events of the two sockets of a session
MaxPings == 1      \* keepalive pings of a session
MaxFrames == 2     \* binary frames the client sends in a session
MaxIgnored == 1    \* ignored messages of a session

\* ------------------------------------------------------- program constants
TRIAL_CREDIT_ALLOCATION == 150            \* credits
CREDITS_PER_MINUTE_X10 == 63              \* 6.3 credits per minute, times ten
MIN_ESTIMATED_SECONDS == 10
BYTES_PER_MINUTE_ESTIMATE == 1024         \* 1024 * 1024 bytes, in KiB
MAX_AUDIO_SIZE_BYTES == 2097152           \* 2 GiB, in KiB
ESTIMATED_POST_PROCESS_CREDITS == 1       \* credits
DEEPGRAM_COST_PER_AUDIO_MINUTE == 55      \* $0.0055, in 1e-4 USD
ELEVENLABS_COST_PER_AUDIO_MINUTE == 983   \* $0.00983, in 1e-5 USD
GROQ_WHISPER_COST_PER_AUDIO_HOUR == 111   \* $0.111, in 1e-3 USD
GROQ_WHISPER_MIN_BILLABLE_SECONDS == 10
MAX_KEYWORDS == 100                       \* terms
LICENSE_CACHE_TTL_SECONDS == 3600         \* 60 * 60
CEREBRAS_PROMPT_COST_PER_TOKEN == 85      \* $0.85 / 1e6, in 1e-8 USD
CEREBRAS_COMPLETION_COST_PER_TOKEN == 120 \* $1.20 / 1e6, in 1e-8 USD
GROQ_PROMPT_COST_PER_TOKEN == 59          \* $0.59 / 1e6, in 1e-8 USD
GROQ_COMPLETION_COST_PER_TOKEN == 79      \* $0.79 / 1e6, in 1e-8 USD

\* ------------------------------------------------------------------ state
VARIABLES
    deviceRec,     \* store: device_credits:<deviceId>
    ipUsage,       \* store: ip_daily:<ip>:<date>, the toFixed(1) string, in tenths
    licCache,      \* store: license:<licenseKey>
    ipBlocked,     \* store: ip_blocked:<ip> = 'true'
    pc,            \* pc[p][thread]: position of each asynchronous call chain
    bal,           \* bal[p][thread]: what getDeviceBalance returned there
    amt,           \* amt[p]: creditsUsed of the deduction p is performing
    rq,            \* locals of the request being served (transcribe / post-process)
    hist,          \* ghost: what the request being served has done so far
    ver,           \* ghost: number of writes to deviceRec so far
    rdVer,         \* ghost: rdVer[p] = ver when p last read deviceRec
    stale,         \* ghost: the last write replaced a value its writer never read
    overlapped,    \* ghost: two ledger operations were ever in flight together
    storeErr,      \* ghost: some store command failed
    sumDeducted,   \* ghost: sum (cc) of the deductions whose write succeeded
    nDeducted,     \* ghost: number of such deductions
    opsStarted,    \* ghost: operations / requests started (bounds the behaviour)
    ws             \* the streaming session (ws-streaming-deepgram.ts closure state)

vars == <<deviceRec, ipUsage, licCache, ipBlocked, pc, bal, amt, rq, hist,
          ver, rdVer, stale, overlapped, storeErr, sumDeducted, nDeducted,
          opsStarted, ws>>

\* what the device-balance steps leave alone
notDevice == <<ipUsage, licCache, ipBlocked, ws>>
storeRest == <<ipUsage, licCache, ipBlocked>>

Procs == 1 .. NumProcs
Threads == {"main", "dev", "ip"}

Max(a, b) == IF a >= b THEN a ELSE b

\* floor(n/d + 1/2): Math.round of the exact quotient n/d (d > 0)
RoundHalfUp(n, d) == (2 * n + d) \div (2 * d)

\* ceil(n/d) (d > 0): Math.ceil of the exact quotient
CeilDiv(n, d) == -((-n) \div d)

\* utils.ts roundToTenth, on a value in cc
roundToTenth(v) == RoundHalfUp(v, 10) * 10

\* utils.ts roundUpToTenth, on the exact fraction n/d of a cc (d > 0)
roundUpToTenth(n, d) == LET rounded == CeilDiv(n, d * 10) * 10
                        IN  IF rounded <= 0 THEN 0 ELSE rounded

\* cost-calculator.ts usdToCredits: micro-USD -> credits as the exact
\* fraction <<numerator, denominator>> of a cc (1 credit = $0.001)
usdToCredits(usd) == IF usd <= 0 THEN <<0, 1>> ELSE <<usd, 10>>

\* cost-calculator.ts creditsForCost: micro-USD -> cc, nearest tenth of a
\* credit, at least 0.1 credit for any positive cost
creditsForCost(costUsd) ==
    IF costUsd <= 0 THEN 0
    ELSE LET raw == usdToCredits(costUsd)
         IN  Max(10, RoundHalfUp(raw[1], raw[2] * 10) * 10)

\* ------------------------------------------------------------ cost model
\* cost-calculator.ts roundUsd of the exact quotient n/d micro-USD
roundUsd(n, d) == RoundHalfUp(n, d)

\* cost-calculator.ts compute*TranscriptionCost: duration (ms) -> micro-USD
computeDeepgramTranscriptionCost(durationMs) ==
    roundUsd(durationMs * DEEPGRAM_COST_PER_AUDIO_MINUTE, 600)

computeElevenLabsTranscriptionCost(durationMs) ==
    roundUsd(durationMs * ELEVENLABS_COST_PER_AUDIO_MINUTE, 6000)

computeGroqTranscriptionCost(durationMs) ==
    LET billableMs == Max(durationMs, GROQ_WHISPER_MIN_BILLABLE_SECONDS * 1000)
    IN  roundUsd(billableMs * GROQ_WHISPER_COST_PER_AUDIO_HOUR, 3600)

\* cost-calculator.ts compute*ChatCost: token counts -> micro-USD
computeCerebrasChatCost(usage) ==
    roundUsd(usage.prompt_tokens * CEREBRAS_PROMPT_COST_PER_TOKEN
               + usage.completion_tokens * CEREBRAS_COMPLETION_COST_PER_TOKEN, 100)

computeGroqChatCost(usage) ==
    roundUsd(usage.prompt_tokens * GROQ_PROMPT_COST_PER_TOKEN
               + usage.completion_tokens * GROQ_COMPLETION_COST_PER_TOKEN, 100)

\* credits.ts estimateCreditsFromSize: Content-Length (KiB) -> cc.
\* estimatedSeconds is kept as the fraction secN / BYTES_PER_MINUTE_ESTIMATE.
estimateCreditsFromSize(sizeBytes) ==
    LET secN == Max(MIN_ESTIMATED_SECONDS * BYTES_PER_MINUTE_ESTIMATE, sizeBytes * 60)
    IN  Max(10, roundUpToTenth(secN * CREDITS_PER_MINUTE_X10,
                               6 * BYTES_PER_MINUTE_ESTIMATE))

\* --------------------------------------------------------- store contents
NoUsage == [exists |-> FALSE, value |-> 0]
NoLicense == [exists |-> FALSE, isValid |-> FALSE, credits |-> 0, ex |-> 0]

\* entries the license cache may hold when a request arrives
InitialLicenses == {NoLicense,
                    [exists |-> TRUE, isValid |-> FALSE, credits |-> 0,
                     ex |-> LICENSE_CACHE_TTL_SECONDS],
                    [exists |-> TRUE, isValid |-> TRUE, credits |-> 5000,
                     ex |-> LICENSE_CACHE_TTL_SECONDS]}

getCachedLicense_FailsClosed(ok) ==
    IF ok THEN licCache
    ELSE [exists |-> TRUE, isValid |-> FALSE, credits |-> 0,
          ex |-> LICENSE_CACHE_TTL_SECONDS]

getCachedLicense_Miss(ok) == NoLicense

\* redis.ts getCachedLicense: the entry, null when there is none or when the
\* store command failed
getCachedLicense(ok) == IF ok THEN licCache ELSE NoLicense

cacheLicense_KeepsBalance(ok, isValid, credits) ==
    IF ok THEN [exists |-> TRUE, isValid |-> isValid, credits |-> licCache.credits,
                ex |-> LICENSE_CACHE_TTL_SECONDS]
    ELSE licCache

\* redis.ts cacheLicense: the key after the set command (`ok` = it succeeded;
\* a failure is logged and swallowed)
cacheLicense(ok, isValid, credits) ==
    IF ok THEN [exists |-> TRUE, isValid |-> isValid, credits |-> credits,
                ex |-> LICENSE_CACHE_TTL_SECONDS]
    ELSE licCache

\* Number.toFixed(1) of a value in cc: the stored decimal string, as tenths
toFixed1(v) == RoundHalfUp(v, 10)

\* Number.parseFloat of a stored toFixed(1) string: tenths -> cc
parseFloat(str) == str * 10

\* rate-limit.ts DAILY_FREE_CREDITS, in cc
DAILY_FREE_CREDITS == TRIAL_CREDIT_ALLOCATION * 100

\* redis.ts isIPBlocked: fails open when the store command fails
isIPBlocked(ok) == IF ok THEN ipBlocked ELSE FALSE

checkRateLimit_FailsOpen(ok, estimatedCredits) ==
    LET parsed == IF ok /\ ipUsage.exists THEN parseFloat(ipUsage.value) ELSE 0
        creditsUsed == roundToTenth(parsed)
    IN  [allowed |-> roundToTenth(creditsUsed + estimatedCredits) <= DAILY_FREE_CREDITS,
         creditsUsed |-> creditsUsed,
         creditsRemaining |-> roundToTenth(Max(0, DAILY_FREE_CREDITS - creditsUsed))]

\* rate-limit.ts checkRateLimit (one store read, `ok` = it succeeded)
checkRateLimit(ok, estimatedCredits) ==
    IF ~ok
    THEN [allowed |-> FALSE, creditsUsed |-> DAILY_FREE_CREDITS, creditsRemaining |-> 0]
    ELSE LET parsed == IF ipUsage.exists THEN parseFloat(ipUsage.value) ELSE 0
             creditsUsed == roundToTenth(parsed)
             creditsAfterRequest == roundToTenth(creditsUsed + estimatedCredits)
         IN  [allowed |-> creditsAfterRequest <= DAILY_FREE_CREDITS,
              creditsUsed |-> creditsUsed,
              creditsRemaining |-> roundToTenth(Max(0, DAILY_FREE_CREDITS - creditsUsed))]

\* rate-limit.ts incrementUsage: the value written back
incrementedUsage(currentCredits, creditsUsed) ==
    toFixed1(roundToTenth(currentCredits + roundToTenth(creditsUsed)))

\* ------------------------------------------------------- device balances
Missing == [exists |-> FALSE, credits_remaining |-> 0, total_allocated |-> 0,
            credits_used |-> 0]

\* redis.ts initializeDevice: the record written on first use
initialBalance ==
    [exists |-> TRUE,
     credits_remaining |-> TRIAL_CREDIT_ALLOCATION * 100,
     total_allocated |-> TRIAL_CREDIT_ALLOCATION * 100,
     credits_used |-> 0]

\* redis.ts normalizeDeviceBalance
normalizeDeviceBalance(raw) ==
    LET creditsRemaining == roundToTenth(raw.credits_remaining)
    IN  [creditsRemaining |-> creditsRemaining,
         totalAllocated |-> raw.total_allocated,
         creditsUsed |-> roundToTenth(raw.credits_used),
         minutesRemaining |-> creditsRemaining \div (CREDITS_PER_MINUTE_X10 * 10),
         isExhausted |-> creditsRemaining <= 0]

\* redis.ts getDeviceBalance, catch branch: the fail-closed placeholder
failClosedBalance ==
    [creditsRemaining |-> 0,
     totalAllocated |-> TRIAL_CREDIT_ALLOCATION * 100,
     creditsUsed |-> TRIAL_CREDIT_ALLOCATION * 100,
     minutesRemaining |-> 0,
     isExhausted |-> TRUE]

NoBalance == [creditsRemaining |-> 0, totalAllocated |-> 0, creditsUsed |-> 0,
              minutesRemaining |-> 0, isExhausted |-> FALSE]

updatedRecord_Adds(current, amount) ==
    [exists |-> TRUE,
     credits_remaining |-> roundToTenth(Max(0, current.creditsRemaining + amount)),
     total_allocated |-> current.totalAllocated,
     credits_used |-> roundToTenth(current.creditsUsed + amount)]

updatedRecord_NoFloor(current, amount) ==
    [exists |-> TRUE,
     credits_remaining |-> roundToTenth(current.creditsRemaining - amount),
     total_allocated |-> current.totalAllocated,
     credits_used |-> roundToTenth(current.creditsUsed + amount)]

\* redis.ts deductDeviceCredits: the record computed from the balance read
updatedRecord(current, amount) ==
    [exists |-> TRUE,
     credits_remaining |-> roundToTenth(Max(0, current.creditsRemaining - amount)),
     total_allocated |-> current.totalAllocated,
     credits_used |-> roundToTenth(current.creditsUsed + amount)]

Goto(p, th, label) == pc' = [pc EXCEPT ![p][th] = label]

\* redis.ts getDeviceBalance: `await getRedis().get(deviceKey)` and the
\* branches on its result.  A failed command is caught and answered with the
\* fail-closed placeholder.
GetBalanceRead(p, th, from, toInit, toDone) ==
    /\ pc[p][th] = from
    /\ rdVer' = [rdVer EXCEPT ![p] = ver]
    /\ \E ok \in BOOLEAN :
         IF ~ok
         THEN /\ bal' = [bal EXCEPT ![p][th] = failClosedBalance]
              /\ storeErr' = TRUE
              /\ Goto(p, th, toDone)
         ELSE /\ storeErr' = storeErr
              /\ IF ~deviceRec.exists
                 THEN /\ bal' = bal
                      /\ Goto(p, th, toInit)
                 ELSE /\ bal' = [bal EXCEPT ![p][th] = normalizeDeviceBalance(deviceRec)]
                      /\ Goto(p, th, toDone)
    /\ UNCHANGED <<deviceRec, ver, stale, notDevice>>

\* redis.ts getDeviceBalance -> initializeDevice: `await getRedis().set(...)`
\* of the starting allocation, then the normalized starting balance.
GetBalanceInit(p, th, from, toDone) ==
    /\ pc[p][th] = from
    /\ \E ok \in BOOLEAN :
         IF ok
         THEN /\ deviceRec' = initialBalance
              /\ ver' = ver + 1
              /\ stale' = (rdVer[p] # ver)
              /\ rdVer' = [rdVer EXCEPT ![p] = ver + 1]
              /\ bal' = [bal EXCEPT ![p][th] = normalizeDeviceBalance(initialBalance)]
              /\ storeErr' = storeErr
         ELSE /\ bal' = [bal EXCEPT ![p][th] = failClosedBalance]
              /\ storeErr' = TRUE
              /\ UNCHANGED <<deviceRec, ver, stale, rdVer>>
    /\ Goto(p, th, toDone)
    /\ UNCHANGED notDevice

\* redis.ts deductDeviceCredits: `await getRedis().set(deviceKey, updated)`.
\* A failed command is rethrown and swallowed by deductCredits.
DeductWrite(p, th, from, toDone) ==
    /\ pc[p][th] = from
    /\ \E ok \in BOOLEAN :
         IF ok
         THEN /\ deviceRec' = updatedRecord(bal[p][th], amt[p])
              /\ ver' = ver + 1
              /\ stale' = (rdVer[p] # ver)
              /\ sumDeducted' = sumDeducted + amt[p]
              /\ nDeducted' = nDeducted + 1
              /\ storeErr' = storeErr
         ELSE /\ storeErr' = TRUE
              /\ UNCHANGED <<deviceRec, ver, stale, sumDeducted, nDeducted>>
    /\ Goto(p, th, toDone)
    /\ UNCHANGED <<bal, rdVer, notDevice>>

\* ------------------------------------------------------- request locals
\* the process that serves the requests of the route specification
R == CHOOSE p \in Procs : \A q \in Procs : p <= q

NoAuth == [type |-> "none", credits |-> 0]
NoResult == [source |-> "none", durationSeconds |-> 0, costUsd |-> 0]
NoResponse == [status |-> 0, error |-> "none", credits |-> 0, requestId |-> FALSE]

\* transcribe.ts:90,108-112: the audio, content type, language and prompt
NoArgs == [audio |-> "none", contentType |-> "none", language |-> "none",
           initialPrompt |-> "none"]

\* the language and vocabulary hint of the query string, as characters;
\* <<>> is an absent or empty parameter (`|| undefined`)
NoQuery == [language |-> <<>>, hint |-> <<>>]

\* the query parameters of a vendor URL that depend on language and hint
NoUrl == [built |-> FALSE, language |-> <<>>, detect_language |-> FALSE,
          hasKeyterm |-> FALSE, keyterm |-> <<>>]

NoRequest ==
    [endpoint |-> "none",
     query |-> NoQuery,
     contentLength |-> 0,
     auth |-> NoAuth,
     validation |-> [isValid |-> FALSE, credits |-> 0],
     estimatedCredits |-> 0,
     args |-> NoArgs,            \* transcribe: what the route hands to a vendor
     provider |-> "none",
     fallbackFrom |-> "none",
     providerName |-> "none",    \* transcribe: stt_provider / X-STT-Provider
     result |-> NoResult,
     currentCredits |-> 0,       \* incrementUsage: the usage it read
     text |-> <<>>,              \* post-process: body.text, trimmed
     providerUsed |-> "none",
     calling |-> "none",         \* the vendor callWithRetry is calling
     phase |-> "none",           \* which callWithRetry of the route is running
     attempt |-> 0,              \* retryWithBackoff: attempt
     maxRetries |-> 0,
     costUsd |-> 0,
     correctedText |-> <<>>,
     response |-> NoResponse]

\* an Error a vendor client throws: its `status` field when it has one, its
\* message as tokens (words, white space, digit runs), and the HTTP status
\* of the vendor response that caused it (0 when no response did)
NoError == [thrown |-> FALSE, hasStatus |-> FALSE, status |-> 0, message |-> <<>>,
            cause |-> 0]

\* ghost: one validateAuth call made with a license key
NoAuthCall ==
    [forceRefresh |-> FALSE,
     cacheRead |-> "none",       \* skipped, failed, miss or hit
     entry |-> NoLicense,        \* the license key's entry when the cache was read
     remote |-> "none",          \* the call to the license authority: threw, or
                                 \* answered valid or invalid
     reported |-> 0,             \* the credits it reported
     written |-> NoLicense,      \* the entry cacheLicense set, if it did
     result |-> "none"]          \* ok or InvalidLicense

NoHistory ==
    [vendorCalls |-> <<>>,       \* vendors the route called or connected to, in order
     calls |-> <<>>,             \* transcribe: each transcribeWith* call, how it ended
     validated |-> FALSE,        \* validateCredits returned ok
     decision |-> "none",        \* what validateCredits answered
     devLookups |-> 0,           \* store commands validateCredits issued on the device key
     ipLookups |-> 0,            \* ... and on the IP usage key
     lookupFailed |-> FALSE,     \* one of them failed
     ipReadFailed |-> FALSE,     \* checkRateLimit's read of the IP usage key failed
     rateLimit |-> [allowed |-> FALSE, creditsUsed |-> 0, creditsRemaining |-> 0],
                                 \* what checkRateLimit returned
     denied |-> "none",          \* which pre-flight check failed
     auth |-> <<>>,              \* each validateAuth call made with a license key
     deductCalls |-> <<>>,       \* costUsd of each deductCredits call
     deviceWrites |-> 0,         \* device-balance writes made by the deduction
     ipWrites |-> 0,             \* IP-usage writes made by the deduction
     remotePosts |-> 0,          \* usage-recording requests sent to the license authority
     attempts |-> <<>>,          \* callWithRetry on its own: what each attempt threw
     delays |-> <<>>,            \* ... the ms it waited after each failed attempt
     rethrown |-> NoError,       \* ... the error it threw in the end
     entries |-> <<>>,           \* the terms the hint was composed of
     batchUrl |-> NoUrl,         \* the URL transcribeWithDeepgram requests
     streamUrl |-> NoUrl,        \* the URL the streaming route connects to
     twice |-> <<>>,             \* stripCleanMarkers applied to its own result
     returned |-> <<>>,          \* post-process: role and costUsd of each
                                 \* callWithRetry that returned
     roles |-> <<>>,             \* post-process: the role of each callWithRetry
     caps |-> <<>>,              \* ... and the maxRetries it was given
     primaryFailure |-> -1,      \* post-process: the HTTP status behind the error the
                                 \* first callWithRetry threw (0 none, -1 it did not)
     firstText |-> <<>>,         \* post-process: the first vendor's corrected text
     retry |-> "none",           \* ... how the alternate vendor's call ended
     retryText |-> <<>>]         \* ... and its corrected text

Respond(status, error) ==
    rq' = [rq EXCEPT !.response = [status |-> status, error |-> error,
                                   credits |-> 0, requestId |-> FALSE]]

MainAt(label) == pc[R]["main"] = label
BillingIdle == pc[R]["dev"] = "idle" /\ pc[R]["ip"] = "idle"

ledgerGhost == <<ver, rdVer, stale, overlapped, sumDeducted, nDeducted>>
deviceVars == <<deviceRec, bal, ver, rdVer, stale, storeErr>>

\* ws-streaming-deepgram.ts:137-141: the closure state of a streaming session
NoSession ==
    [clientReadyState |-> 0,         \* ws.readyState: 1 open, 2 closing, 3 closed
     deepgramWs |-> "null",          \* null, or its readyState
     totalDurationSeconds |-> 0,     \* in ms
     sessionEnded |-> FALSE,
     pingInterval |-> FALSE,
     closePending |-> {},            \* close handlers waiting on `await endSession()`
     sessionComplete |-> 0,          \* ghost: session_complete events sent
     endRuns |-> 0,                  \* ghost: times endSession ran its billing step
     resultsBeforeEnd |-> 0,         \* ghost: durations of Results seen before it ran
     ready |-> 0,                    \* ghost: ready events sent
     msgsSeen |-> 0,                 \* ghost: vendor messages received
     credential |-> FALSE,           \* ghost: onOpen found the vendor credential
     readySessionId |-> 0,           \* ghost: sessionId of the ready event
     stopped |-> FALSE,              \* ghost: a 'stop' was handled, upstream open
     upstreamErrors |-> 0,           \* ghost: upstream 'error' events
     clientErrors |-> 0,             \* ghost: onError calls
     errorsSent |-> 0,               \* ghost: error events sent by the listeners
     pings |-> 0,                    \* ghost: ping events sent
     endedAt |-> 0,                  \* ghost: ws.readyState when endSession ran
     completeEvent |-> [duration_seconds |-> 0, credits_used |-> 0],
     afterComplete |-> {},           \* ghost: events sent after session_complete
     framesIn |-> 0,                 \* ghost: binary frames received from the client
     openFrames |-> <<>>,            \* ghost: those received with the upstream open
     forwarded |-> <<>>,             \* ghost: frames sent upstream, in order
     ignored |-> 0]                  \* ghost: messages handled by the ignoring paths

STREAMING == "/ws/streaming-deepgram"

\* where the routes go when a pre-flight check fails: they return the response
afterIpBlocked == "done"
afterAuthFailed_FallsThrough == "ws_open"
afterAuthFailed == "done"

\* the text of a 401: auth.ts validateAuth's error on the HTTP routes,
\* ws-streaming-deepgram.ts:113-120 on the streaming handshake
authError(endpoint, error) ==
    IF endpoint # "/ws/streaming-deepgram" THEN error
    ELSE IF error = "Identifier required" THEN "Missing license_key or device_id"
    ELSE "Unauthorized"
afterCreditsDenied_FallsThrough == "vendor"
afterCreditsDenied == "done"

\* ------------------------------------------------- routes: pre-flight
Endpoints == {"/transcribe", "/post-process", STREAMING}

SessionOver ==
    /\ MainAt("ws_session")
    /\ ws.clientReadyState = 3
    /\ ws.deepgramWs \in {"null", "closed"}
    /\ ws.closePending = {}

\* the order of the pre-flight steps: transcribe.ts:80-105,
\* post-process.ts:35-78, ws-streaming-deepgram.ts:98-126
firstStep(endpoint) == IF endpoint = STREAMING THEN "upgrade" ELSE "ipblock"
afterIpCheck(endpoint) == IF endpoint = STREAMING THEN "auth" ELSE "validate"
afterAuth(endpoint) == IF endpoint = STREAMING THEN "ws_open" ELSE "cred"

\* a request arrives (the slot is free: the previous response was returned
\* and its deduction has finished)
Arrives(ep) ==
    /\ pc[R]["main"] \in {"idle", "done"} \/ SessionOver
    /\ BillingIdle
    /\ opsStarted < MaxRequests
    /\ rq' = [NoRequest EXCEPT !.endpoint = ep]
    /\ Goto(R, "main", firstStep(ep))
    /\ hist' = NoHistory
    /\ ws' = NoSession
    /\ bal' = [bal EXCEPT ![R] = [th \in Threads |-> NoBalance]]
    /\ amt' = [amt EXCEPT ![R] = 0]
    /\ opsStarted' = opsStarted + 1
    /\ storeErr' = FALSE
    /\ ver' = 0 /\ rdVer' = [p \in Procs |-> 0] /\ stale' = FALSE
    /\ sumDeducted' = 0 /\ nDeducted' = 0
    /\ UNCHANGED <<deviceRec, storeRest, overlapped>>

RequestStart == \E ep \in Endpoints : Arrives(ep)

\* ws-streaming-deepgram.ts:99-102
WsUpgradeCheck ==
    /\ MainAt("upgrade")
    /\ \E upgrade \in BOOLEAN :
         IF upgrade
         THEN /\ rq' = rq
              /\ Goto(R, "main", "ipblock")
         ELSE /\ Respond(426, "Expected WebSocket upgrade")
              /\ Goto(R, "main", "done")
    /\ UNCHANGED <<deviceVars, notDevice, amt, hist, overlapped, sumDeducted, nDeducted,
                   opsStarted>>

\* transcribe.ts:81 / post-process.ts:35 `if (await isIPBlocked(clientIP))`
IpBlockCheck ==
    /\ MainAt("ipblock")
    /\ \E ok \in BOOLEAN :
         IF isIPBlocked(ok)
         THEN /\ Respond(403, "Access denied")
              /\ hist' = [hist EXCEPT !.denied = "ipblock"]
              /\ Goto(R, "main", afterIpBlocked)
         ELSE /\ UNCHANGED <<rq, hist>>
              /\ Goto(R, "main", afterIpCheck(rq.endpoint))
    /\ UNCHANGED <<deviceVars, notDevice, amt, overlapped, sumDeducted, nDeducted, opsStarted>>

ContentLengths == {1, 1024, 3072}     \* KiB
HeaderCases == {"bad_type", "no_length", "bad_length", "too_large", "ok"}

\* transcribe.ts validateStreamingHeaders
TranscribeHeaders ==
    /\ MainAt("validate")
    /\ rq.endpoint = "/transcribe"
    /\ \E hc \in HeaderCases :
         IF hc = "ok"
         THEN /\ \E cl \in ContentLengths :
                   /\ cl > 0 /\ cl <= MAX_AUDIO_SIZE_BYTES
                   /\ rq' = [rq EXCEPT !.contentLength = cl]
              /\ Goto(R, "main", "auth")
         ELSE /\ Respond(IF hc = "too_large" THEN 413 ELSE 400, hc)
              /\ Goto(R, "main", "done")
    /\ UNCHANGED <<deviceVars, notDevice, amt, hist, overlapped, sumDeducted, nDeducted,
                   opsStarted>>

\* auth.ts:186-187: the cache is consulted unless a refresh is forced
licenseStep(forceRefresh) == IF forceRefresh THEN "auth_api" ELSE "auth_cache"

\* auth.ts validateAuth: which identifier the request carries
AuthDispatch ==
    /\ MainAt("auth")
    /\ \E idKind \in {"none", "license", "device"} :
         CASE idKind = "none" ->
                /\ Respond(401, authError(rq.endpoint, "Identifier required"))
                /\ hist' = [hist EXCEPT !.denied = "auth"]
                /\ Goto(R, "main", afterAuthFailed)
           [] idKind = "license" ->
                /\ rq' = rq
                /\ hist' = [hist EXCEPT !.auth = Append(@, NoAuthCall)]
                /\ Goto(R, "main", licenseStep(FALSE))
           [] idKind = "device" ->
                /\ UNCHANGED <<rq, hist>>
                /\ Goto(R, "main", "auth_get")
    /\ UNCHANGED <<deviceVars, notDevice, amt, overlapped, sumDeducted, nDeducted, opsStarted>>

licensedAuth(credits) == [type |-> "licensed", credits |-> credits]

\* ghost: the validateAuth call in progress
thisCall == Len(hist.auth)

\* auth.ts validateAuth: `await getCachedLicense(licenseKey)` (a failed store
\* command reads as a miss) and the branches on the cached entry
AuthCacheLookup ==
    /\ MainAt("auth_cache")
    /\ \E ok \in BOOLEAN :
         LET cached == getCachedLicense(ok)
             h == [hist EXCEPT !.auth[thisCall].cacheRead =
                                   IF ~ok THEN "failed"
                                   ELSE IF licCache.exists THEN "hit" ELSE "miss",
                               !.auth[thisCall].entry = licCache]
         IN  IF cached.exists
             THEN IF ~cached.isValid
                  THEN /\ Respond(401, authError(rq.endpoint, "Invalid license"))
                       /\ hist' = [h EXCEPT !.denied = "auth",
                                            !.auth[thisCall].result = "InvalidLicense"]
                       /\ Goto(R, "main", afterAuthFailed)
                  ELSE /\ rq' = [rq EXCEPT !.auth = licensedAuth(cached.credits)]
                       /\ hist' = [h EXCEPT !.auth[thisCall].result = "ok"]
                       /\ Goto(R, "main", afterAuth(rq.endpoint))
             ELSE /\ rq' = rq
                  /\ hist' = h
                  /\ Goto(R, "main", "auth_api")
    /\ UNCHANGED <<deviceVars, notDevice, amt, overlapped, sumDeducted, nDeducted, opsStarted>>

\* balances (cc) the remote license authority may report
LicenseCredits == {96, 5000}

failClosedValidation_Open == [isValid |-> TRUE, credits |-> 0]

\* auth.ts:168-176: what validateLicenseViaApi caches and returns when the
\* request to the license authority throws
failClosedValidation == [isValid |-> FALSE, credits |-> 0]

\* auth.ts validateLicenseViaApi: the fetch of /api/license/validate throws,
\* or answers; an unparsable body and a body without valid: true yield
\* isValid = false, a body without a numeric credits yields credits = 0
AuthRemoteValidate ==
    /\ MainAt("auth_api")
    /\ \E threw \in BOOLEAN :
         IF threw
         THEN /\ rq' = [rq EXCEPT !.validation = failClosedValidation]
              /\ hist' = [hist EXCEPT !.auth[thisCall].remote = "threw"]
         ELSE \E answer \in {<<FALSE, 0>>} \cup {<<TRUE, c>> : c \in LicenseCredits} :
                   /\ rq' = [rq EXCEPT !.validation = [isValid |-> answer[1],
                                                       credits |-> answer[2]]]
                   /\ hist' = [hist EXCEPT
                                 !.auth[thisCall].remote =
                                     IF answer[1] THEN "valid" ELSE "invalid",
                                 !.auth[thisCall].reported = answer[2]]
    /\ Goto(R, "main", "auth_cachewrite")
    /\ UNCHANGED <<deviceVars, notDevice, amt, overlapped, sumDeducted, nDeducted,
                   opsStarted>>

\* auth.ts validateLicenseViaApi: `await cacheLicense(...)` (a failed store
\* command is swallowed), then validateAuth's branch on validation.isValid
AuthCacheWrite ==
    /\ MainAt("auth_cachewrite")
    /\ \E ok \in BOOLEAN :
         /\ licCache' = cacheLicense(ok, rq.validation.isValid, rq.validation.credits)
         /\ LET h == [hist EXCEPT !.auth[thisCall].written =
                                      IF ok THEN licCache' ELSE NoLicense] IN
            IF ~rq.validation.isValid
            THEN /\ Respond(401, authError(rq.endpoint, "Invalid license"))
                 /\ hist' = [h EXCEPT !.denied = "auth",
                                      !.auth[thisCall].result = "InvalidLicense"]
                 /\ Goto(R, "main", afterAuthFailed)
            ELSE /\ rq' = [rq EXCEPT !.auth = licensedAuth(rq.validation.credits)]
                 /\ hist' = [h EXCEPT !.auth[thisCall].result = "ok"]
                 /\ Goto(R, "main", afterAuth(rq.endpoint))
    /\ UNCHANGED <<deviceVars, ipUsage, ipBlocked, ws, amt, overlapped, sumDeducted,
                   nDeducted, opsStarted>>

\* auth.ts validateAuth, trial user: getDeviceBalance(deviceId)
AuthDeviceRead ==
    /\ GetBalanceRead(R, "main", "auth_get", "auth_init", "auth_trial")
    /\ UNCHANGED <<amt, rq, hist, overlapped, sumDeducted, nDeducted, opsStarted>>

AuthDeviceInit ==
    /\ GetBalanceInit(R, "main", "auth_init", "auth_trial")
    /\ UNCHANGED <<amt, rq, hist, overlapped, sumDeducted, nDeducted, opsStarted>>

\* auth.ts validateAuth, trial user: the identity returned
AuthTrial ==
    /\ MainAt("auth_trial")
    /\ rq' = [rq EXCEPT !.auth = [type |-> "trial",
                                  credits |-> bal[R]["main"].creditsRemaining]]
    /\ Goto(R, "main", afterAuth(rq.endpoint))
    /\ UNCHANGED <<deviceVars, notDevice, amt, hist, overlapped, sumDeducted, nDeducted,
                   opsStarted>>

\* --------------------------------------------- routes: validateCredits
\* transcribe.ts:101 / post-process.ts:75: the estimate handed to validateCredits
estimateFor(endpoint, contentLength) ==
    IF endpoint = "/transcribe" THEN estimateCreditsFromSize(contentLength)
    ELSE ESTIMATED_POST_PROCESS_CREDITS * 100

\* credits.ts validateCredits, licensed branch
licensedAdmits(credits, estimatedCredits) ==
    LET balance == roundToTenth(credits)
    IN  ~(balance < estimatedCredits)

deviceAdmits_IgnoresEstimate(deviceBalance, estimatedCredits) == ~deviceBalance.isExhausted

\* credits.ts validateCredits, trial branch: the device condition
deviceAdmits(deviceBalance, estimatedCredits) ==
    ~(deviceBalance.isExhausted \/ deviceBalance.creditsRemaining < estimatedCredits)

\* credits.ts validateCredits: entry; the licensed branch decides at once,
\* the trial branch starts getDeviceBalance
CreditsDispatch ==
    /\ MainAt("cred")
    /\ LET est == estimateFor(rq.endpoint, rq.contentLength) IN
         IF rq.auth.type = "licensed"
         THEN IF licensedAdmits(rq.auth.credits, est)
              THEN /\ rq' = [rq EXCEPT !.estimatedCredits = est]
                   /\ hist' = [hist EXCEPT !.validated = TRUE, !.decision = "ok"]
                   /\ Goto(R, "main", "vendor")
              ELSE /\ rq' = [rq EXCEPT !.estimatedCredits = est,
                                !.response = [status |-> 402, error |-> "Insufficient credits",
                                              credits |-> roundToTenth(rq.auth.credits),
                                              requestId |-> FALSE]]
                   /\ hist' = [hist EXCEPT !.decision = "InsufficientCredits",
                                           !.denied = "credits"]
                   /\ Goto(R, "main", afterCreditsDenied)
         ELSE /\ rq' = [rq EXCEPT !.estimatedCredits = est]
              /\ hist' = hist
              /\ Goto(R, "main", "cred_get")
    /\ storeErr' = FALSE
    /\ UNCHANGED <<deviceRec, bal, ver, rdVer, stale, notDevice, amt, overlapped,
                   sumDeducted, nDeducted, opsStarted>>

CreditsLookedUp ==
    hist' = [hist EXCEPT !.devLookups = @ + 1, !.lookupFailed = storeErr']

CreditsDeviceRead ==
    /\ GetBalanceRead(R, "main", "cred_get", "cred_init", "cred_dev")
    /\ CreditsLookedUp
    /\ UNCHANGED <<amt, rq, overlapped, sumDeducted, nDeducted, opsStarted>>

CreditsDeviceInit ==
    /\ GetBalanceInit(R, "main", "cred_init", "cred_dev")
    /\ CreditsLookedUp
    /\ UNCHANGED <<amt, rq, overlapped, sumDeducted, nDeducted, opsStarted>>

\* credits.ts validateCredits, trial branch: the device condition, then
\* checkRateLimit is started
CreditsDeviceCheck ==
    /\ MainAt("cred_dev")
    /\ IF deviceAdmits(bal[R]["main"], rq.estimatedCredits)
       THEN /\ UNCHANGED <<rq, hist>>
            /\ Goto(R, "main", "cred_ip")
       ELSE /\ rq' = [rq EXCEPT !.response =
                         [status |-> 402, error |-> "Trial credits exhausted",
                          credits |-> bal[R]["main"].creditsRemaining,
                          requestId |-> FALSE]]
            /\ hist' = [hist EXCEPT !.decision = "DeviceCreditsExhausted",
                                    !.denied = "credits"]
            /\ Goto(R, "main", afterCreditsDenied)
    /\ UNCHANGED <<deviceVars, notDevice, amt, overlapped, sumDeducted, nDeducted, opsStarted>>

\* credits.ts validateCredits, trial branch: checkRateLimit's store read and
\* the decision on its answer
CreditsRateLimit ==
    /\ MainAt("cred_ip")
    /\ \E ok \in BOOLEAN :
         LET rateLimit == checkRateLimit(ok, rq.estimatedCredits) IN
           IF rateLimit.allowed
           THEN /\ rq' = rq
                /\ hist' = [hist EXCEPT !.ipLookups = @ + 1,
                                        !.ipReadFailed = ~ok,
                                        !.rateLimit = rateLimit,
                                        !.validated = TRUE, !.decision = "ok"]
                /\ Goto(R, "main", "vendor")
           ELSE /\ rq' = [rq EXCEPT !.response =
                             [status |-> 429, error |-> "Rate limit exceeded",
                              credits |-> 0, requestId |-> FALSE]]
                /\ hist' = [hist EXCEPT !.ipLookups = @ + 1,
                                        !.lookupFailed = @ \/ ~ok,
                                        !.ipReadFailed = ~ok,
                                        !.rateLimit = rateLimit,
                                        !.decision = "IPRateLimited",
                                        !.denied = "credits"]
                /\ Goto(R, "main", afterCreditsDenied)
    /\ UNCHANGED <<deviceVars, notDevice, amt, overlapped, sumDeducted, nDeducted, opsStarted>>

\* ---------------------------------------------------- text processing
\* Texts are sequences of one-character strings.
LowerCase ==
    <<"a", "b", "c", "d", "e", "f", "g", "h", "i", "j", "k", "l", "m", "n",
      "o", "p", "q", "r", "s", "t", "u", "v", "w", "x", "y", "z">>
UpperCase ==
    <<"A", "B", "C", "D", "E", "F", "G", "H", "I", "J", "K", "L", "M", "N",
      "O", "P", "Q", "R", "S", "T", "U", "V", "W", "X", "Y", "Z">>
UpperOf ==
    [c \in {LowerCase[k] : k \in 1 .. Len(LowerCase)} |->
        UpperCase[CHOOSE k \in 1 .. Len(LowerCase) : LowerCase[k] = c]]

\* String.prototype.toUpperCase on one character
toUpperCase(c) == IF c \in DOMAIN UpperOf THEN UpperOf[c] ELSE c

\* text-processing.ts CLEAN_MARKER_PATTERN: the alternatives, in order (flags gi)
CLEAN_MARKER_PATTERN ==
    <<<<"<", "<", "C", "L", "E", "A", "N", "E", "D", ">", ">">>,
      <<"<", "<", "C", "L", "E", "A", "N", "E", "D", ">">>,
      <<"<", "C", "L", "E", "A", "N", "E", "D", ">", ">">>,
      <<"<", "C", "L", "E", "A", "N", "E", "D", ">">>,
      <<"<", "<", "E", "N", "D", ">", ">">>,
      <<"<", "<", "E", "N", "D", ">">>,
      <<"<", "E", "N", "D", ">", ">">>,
      <<"<", "E", "N", "D", ">">>>>

\* text-processing.ts PROMPT_LEAKAGE_MARKERS
PROMPT_LEAKAGE_MARKERS ==
    {<<"-", "-", "T", "R", "A", "N", "S", "C", "R", "I", "P", "T", "-", "-">>,
     <<"-", "-", "E", "N", "D", "T", "R", "A", "N", "S", "C", "R", "I", "P", "T",
       "-", "-">>,
     <<"<", "I", "N", "S", "T", "R", "U", "C", "T", "I", "O", "N", "S", ">">>,
     <<"<", "U", "S", "E", "R", "_", "S", "Y", "S", "T", "E", "M", "_", "P", "R",
       "O", "M", "P", "T", ">">>,
     <<"<", "A", "P", "P", "L", "I", "C", "A", "T", "I", "O", "N", "_", "C", "O",
       "N", "T", "E", "X", "T", ">">>,
     <<"<", "C", "U", "S", "T", "O", "M", "_", "V", "O", "C", "A", "B", "U", "L",
       "A", "R", "Y", ">">>}

\* String.prototype.includes
includes(text, marker) ==
    \E i \in 1 .. Len(text) :
        /\ i + Len(marker) - 1 <= Len(text)
        /\ SubSeq(text, i, i + Len(marker) - 1) = marker

\* text-processing.ts containsPromptLeakage
containsPromptLeakage(text) ==
    \E marker \in PROMPT_LEAKAGE_MARKERS : includes(text, marker)

\* the alternative of CLEAN_MARKER_PATTERN matching text at position i
\* ignoring case, 0 when none does: a regular-expression alternation takes
\* the first alternative that matches
matchAt(text, i) ==
    LET matches(j) ==
            LET alt == CLEAN_MARKER_PATTERN[j] IN
            /\ i + Len(alt) - 1 <= Len(text)
            /\ \A k \in 1 .. Len(alt) : toUpperCase(text[i + k - 1]) = alt[k]
        hits == {j \in 1 .. Len(CLEAN_MARKER_PATTERN) : matches(j)}
    IN  IF hits = {} THEN 0 ELSE CHOOSE j \in hits : \A h \in hits : j <= h

\* String.prototype.replace(CLEAN_MARKER_PATTERN, ''): one left-to-right pass
RECURSIVE replaceMarkers(_, _)
replaceMarkers(text, i) ==
    IF i > Len(text) THEN <<>>
    ELSE LET j == matchAt(text, i) IN
         IF j # 0 THEN replaceMarkers(text, i + Len(CLEAN_MARKER_PATTERN[j]))
         ELSE <<text[i]>> \o replaceMarkers(text, i + 1)

WhiteSpace == {" ", "\n", "\t"}

\* String.prototype.trim
trim(text) ==
    LET kept == {i \in 1 .. Len(text) : text[i] \notin WhiteSpace}
    IN  IF kept = {} THEN <<>>
        ELSE SubSeq(text, CHOOSE i \in kept : \A k \in kept : i <= k,
                          CHOOSE i \in kept : \A k \in kept : i >= k)

\* text-processing.ts stripCleanMarkers
stripCleanMarkers(text) == trim(replaceMarkers(text, 1))

\* ---------------------------------------------- vocabulary hints
\* the k-th smallest member of a set of positions
kth(S, k) == CHOOSE p \in S : Cardinality({q \in S : q <= p}) = k

\* String.prototype.split: the pieces of text around its separators, the
\* i-th separator being text[starts[i] .. ends[i]]
splitAt(text, starts, ends) ==
    LET n == Cardinality(starts)
        from(k) == IF k = 1 THEN 1 ELSE kth(ends, k - 1) + 1
        to(k) == IF k = n + 1 THEN Len(text) ELSE kth(starts, k) - 1
    IN  [k \in 1 .. n + 1 |-> SubSeq(text, from(k), to(k))]

\* split(/[,\n;]+/): a separator is a maximal run of the characters
splitRuns(text, chars) ==
    LET at == {i \in 1 .. Len(text) : text[i] \in chars}
    IN  splitAt(text, {i \in at : i - 1 \notin at}, {i \in at : i + 1 \notin at})

\* split(','): every occurrence is a separator
splitEach(text, chars) ==
    LET at == {i \in 1 .. Len(text) : text[i] \in chars}
    IN  splitAt(text, at, at)

\* replace(/^[-*]\s*/, '')
stripBullet(t) ==
    IF t = <<>> \/ t[1] \notin {"-", "*"} THEN t
    ELSE LET rest == {i \in 2 .. Len(t) : t[i] \notin WhiteSpace}
         IN  IF rest = {} THEN <<>>
             ELSE SubSeq(t, CHOOSE i \in rest : \A k \in rest : i <= k, Len(t))

slice_All(terms, end) == terms

\* Array.prototype.slice(0, end)
slice(terms, end) == SubSeq(terms, 1, IF Len(terms) < end THEN Len(terms) ELSE end)

\* Array.prototype.join
RECURSIVE join(_, _)
join(terms, sep) ==
    IF terms = <<>> THEN <<>>
    ELSE IF Len(terms) = 1 THEN terms[1]
    ELSE LET half == Len(terms) \div 2
         IN  join(SubSeq(terms, 1, half), sep) \o sep
                 \o join(SubSeq(terms, half + 1, Len(terms)), sep)

\* deepgram.ts convertToKeyterms
convertToKeyterms(initialPrompt) ==
    LET bare(t) == stripBullet(trim(t))
        valid(t) == Len(t) > 0 /\ Len(t) <= 50
        pieces == splitRuns(initialPrompt, {",", "\n", ";"})
        terms == slice(SelectSeq([k \in 1 .. Len(pieces) |-> bare(pieces[k])], valid),
                       MAX_KEYWORDS)
    IN  join(terms, <<",">>)

\* String.prototype.toLowerCase
toLowerCase(str) ==
    LET lower(c) == IF \E k \in 1 .. Len(UpperCase) : UpperCase[k] = c
                    THEN LowerCase[CHOOSE k \in 1 .. Len(UpperCase) : UpperCase[k] = c]
                    ELSE c
    IN  [k \in 1 .. Len(str) |-> lower(str[k])]

auto == <<"a", "u", "t", "o">>

batchKeyterm_MonolingualOnly(isMonolingual, vocabularyTerms) ==
    isMonolingual /\ Len(vocabularyTerms) > 0

\* deepgram.ts:43-46: "Keyterm works for Nova-3 in both modes"
batchKeyterm(isMonolingual, vocabularyTerms) == Len(vocabularyTerms) > 0

\* deepgram.ts buildDeepgramUrl(language, vocabularyTerms)
buildDeepgramUrl(language, vocabularyTerms) ==
    LET isMonolingual == language # <<>> /\ toLowerCase(language) # auto
        hasKeyterm == batchKeyterm(isMonolingual, vocabularyTerms)
    IN  [built |-> TRUE,
         language |-> IF isMonolingual THEN toLowerCase(language) ELSE <<>>,
         detect_language |-> ~isMonolingual,
         hasKeyterm |-> hasKeyterm,
         keyterm |-> IF hasKeyterm THEN vocabularyTerms ELSE <<>>]

\* deepgram.ts:65-66: the URL transcribeWithDeepgram requests
batchUrlFor(language, initialPrompt) ==
    buildDeepgramUrl(language, IF initialPrompt # <<>>
                               THEN convertToKeyterms(initialPrompt) ELSE <<>>)

\* ws-streaming-deepgram.ts buildDeepgramUrl(language, vocabulary)
streamingUrlFor(language, vocabulary) ==
    LET nonEmpty(t) == t # <<>>
        boosted(term) == term \o <<":", "1", ".", "5">>
        pieces == splitEach(vocabulary, {","})
        terms == SelectSeq([k \in 1 .. Len(pieces) |-> trim(pieces[k])], nonEmpty)
        hasKeyterm == /\ language # <<>> /\ language # auto
                      /\ vocabulary # <<>>
                      /\ Len(terms) > 0 /\ Len(terms) <= 100
    IN  [built |-> TRUE,
         language |-> IF language # <<>> /\ language # auto THEN language ELSE <<>>,
         detect_language |-> FALSE,
         hasKeyterm |-> hasKeyterm,
         keyterm |-> IF hasKeyterm
                     THEN join([k \in 1 .. Len(terms) |-> boosted(terms[k])], <<",">>)
                     ELSE <<>>]

\* texts used as request bodies and vendor outputs
InputPlain == <<"h", "i">>
InputWithMarker == <<"-", "-", "T", "R", "A", "N", "S", "C", "R", "I", "P",
    "T", "-", "-">>
OutputPlain == <<"o", "k">>
OutputMarked == <<"<", "<", "C", "L", "E", "A", "N", "E", "D", ">", ">", "o",
    "k", "<", "<", "e", "n", "d", ">", ">", " ">>
OutputLeaked == <<"-", "-", "T", "R", "A", "N", "S", "C", "R", "I", "P", "T",
    "-", "-", "h", "i">>
OutputLeakedAfterStrip == <<"<", "I", "N", "S", "T", "R", "U", "C", "<", "E",
    "N", "D", ">", "T", "I", "O", "N", "S", ">">>
OutputLowerCase == <<"<", "i", "n", "s", "t", "r", "u", "c", "t", "i", "o",
    "n", "s", ">">>

\* ------------------------------------------------- deductCredits
skipsDeduction_OnlyNegative(creditsUsed) == creditsUsed < 0

\* credits.ts deductCredits: `if (creditsUsed <= 0) return 0`
skipsDeduction(creditsUsed) == creditsUsed <= 0

\* credits.ts deductCredits, up to its first await: creditsUsed is computed;
\* unless skipped, a licensed identity sends its usage to the license
\* authority, a trial identity starts deductDeviceCredits and incrementUsage
\* side by side.  `mainNext` is where the caller goes on (it does not wait);
\* `h` is the request's history up to the call.
deductCredits(h, costUsd, mainNext) ==
    LET creditsUsed == creditsForCost(costUsd)
        skip == skipsDeduction(creditsUsed)
        licensed == rq.auth.type = "licensed"
    IN  /\ amt' = [amt EXCEPT ![R] = creditsUsed]
        /\ hist' = [h EXCEPT !.deductCalls = Append(@, costUsd),
                                !.remotePosts = IF ~skip /\ licensed THEN @ + 1 ELSE @]
        /\ pc' = [pc EXCEPT ![R] =
                    [main |-> mainNext,
                     dev |-> IF skip THEN "idle" ELSE IF licensed THEN "l_post" ELSE "d_get",
                     ip |-> IF skip \/ licensed THEN "idle" ELSE "i_get"]]

routeGhost == <<overlapped, opsStarted>>

afterDeductionError_Rejects == "rejected"

\* credits.ts:105-109, 127-135 and rate-limit.ts:88-93: an error of the
\* deduction is caught and logged; the promise of deductCredits resolves
afterDeductionError == "idle"

\* redis.ts deductDeviceCredits -> getDeviceBalance
BillDeviceRead ==
    /\ GetBalanceRead(R, "dev", "d_get", "d_init", "d_set")
    /\ UNCHANGED <<amt, rq, hist, sumDeducted, nDeducted, routeGhost>>

BillDeviceInit ==
    /\ GetBalanceInit(R, "dev", "d_init", "d_set")
    /\ hist' = [hist EXCEPT !.deviceWrites = @ + 1]
    /\ UNCHANGED <<amt, rq, sumDeducted, nDeducted, routeGhost>>

\* redis.ts deductDeviceCredits: the write of the updated record
BillDeviceWrite ==
    /\ DeductWrite(R, "dev", "d_set", "idle")
    /\ hist' = [hist EXCEPT !.deviceWrites = @ + 1]
    /\ UNCHANGED <<amt, rq, routeGhost>>

\* rate-limit.ts incrementUsage: `await redis.get().get(rateLimitKey)`; a
\* failed command is caught and nothing is written
BillUsageRead ==
    /\ pc[R]["ip"] = "i_get"
    /\ \E ok \in BOOLEAN :
         IF ok
         THEN /\ rq' = [rq EXCEPT !.currentCredits =
                           roundToTenth(IF ipUsage.exists THEN parseFloat(ipUsage.value)
                                        ELSE 0)]
              /\ Goto(R, "ip", "i_set")
         ELSE /\ rq' = rq
              /\ Goto(R, "ip", afterDeductionError)
    /\ UNCHANGED <<deviceVars, notDevice, amt, hist, sumDeducted, nDeducted, routeGhost>>

\* rate-limit.ts incrementUsage: `await redis.get().set(rateLimitKey, ...)`
BillUsageWrite ==
    /\ pc[R]["ip"] = "i_set"
    /\ \E ok \in BOOLEAN :
         IF ok
         THEN /\ ipUsage' = [exists |-> TRUE,
                             value |-> incrementedUsage(rq.currentCredits, amt[R])]
              /\ hist' = [hist EXCEPT !.ipWrites = @ + 1]
         ELSE UNCHANGED <<ipUsage, hist>>
    /\ Goto(R, "ip", "idle")
    /\ UNCHANGED <<deviceVars, licCache, ipBlocked, ws, amt, rq, sumDeducted, nDeducted,
                   routeGhost>>

\* credits.ts recordLicenseUsage: the answer to POST /api/license/credits
BillRemoteAnswer ==
    /\ pc[R]["dev"] = "l_post"
    /\ \/ \E credits \in LicenseCredits :
              /\ rq' = [rq EXCEPT !.validation = [isValid |-> TRUE, credits |-> credits]]
              /\ Goto(R, "dev", "l_cache")
       \/ \E outcome \in {"network_error", "rejected", "no_balance"} :
              /\ rq' = rq
              /\ Goto(R, "dev", afterDeductionError)
    /\ UNCHANGED <<deviceVars, notDevice, amt, hist, sumDeducted, nDeducted, routeGhost>>

\* credits.ts recordLicenseUsage: `await cacheLicense(...)` of the balance
\* the authority reported
BillCacheWrite ==
    /\ pc[R]["dev"] = "l_cache"
    /\ \E ok \in BOOLEAN :
         licCache' = cacheLicense(ok, TRUE, rq.validation.credits)
    /\ Goto(R, "dev", "idle")
    /\ UNCHANGED <<deviceVars, ipUsage, ipBlocked, ws, amt, rq, hist, sumDeducted, nDeducted,
                   routeGhost>>

\* ------------------------------------------------- routes: /transcribe
Providers == {"deepgram", "groq", "elevenlabs"}
Durations == {0, 60000, 120000}      \* vendor-reported audio duration, ms

\* providers/*.ts: the result built from a vendor's answer (durationSeconds
\* is kept in ms)
costOf(provider, durationMs) ==
    CASE provider = "deepgram" -> computeDeepgramTranscriptionCost(durationMs)
      [] provider = "groq" -> computeGroqTranscriptionCost(durationMs)
      [] provider = "elevenlabs" -> computeElevenLabsTranscriptionCost(durationMs)

transcriptionResult(provider, hasTranscript, durationMs) ==
    IF ~hasTranscript
    THEN [source |-> "no_speech", durationSeconds |-> 0, costUsd |-> 0]
    ELSE [source |-> provider, durationSeconds |-> durationMs,
          costUsd |-> costOf(provider, durationMs)]

\* transcribe.ts:145-148 `if (!noSpeech) deductCredits(...)`
billsResult(result) == result.source # "no_speech"

providerName_Selected(provider, fallbackFrom) == provider

\* transcribe.ts:141-143 (PROVIDER_NAMES is kept as the provider's key)
providerName(provider, fallbackFrom) ==
    IF fallbackFrom # "none" THEN "deepgram (fallback from " \o fallbackFrom \o ")"
    ELSE provider

\* transcribe.ts:141-184: the result is billed (not awaited) and returned
TranscribeFinish(h, r, result, fallbackFrom) ==
    /\ rq' = [r EXCEPT !.result = result,
                        !.fallbackFrom = fallbackFrom,
                        !.providerName = providerName(r.provider, fallbackFrom),
                        !.response = [status |-> 200, error |-> "none",
                                      credits |-> IF result.source = "no_speech" THEN 0
                                                  ELSE creditsForCost(result.costUsd),
                                      requestId |-> TRUE]]
    /\ IF billsResult(result)
       THEN deductCredits(h, result.costUsd, "done")
       ELSE /\ Goto(R, "main", "done")
            /\ hist' = h
            /\ amt' = amt

\* transcribe.ts:136-139: the catch around the provider calls
TranscribeFailed(h, r) ==
    /\ rq' = [r EXCEPT !.response = [status |-> 500, error |-> "Transcription failed",
                                      credits |-> 0, requestId |-> TRUE]]
    /\ hist' = h
    /\ Goto(R, "main", "done")
    /\ amt' = amt

\* how a transcription vendor's call ends: -2 the credential is missing
\* (thrown before any request), -1 it answers, 0 the request itself threw,
\* else the HTTP status of its error response
VendorOutcomes == {-2, -1, 0, 401, 403, 503}

\* what a vendor may answer: <<a transcript is present, reported duration>>
Answers == {<<FALSE, 0>>} \cup {<<TRUE, d>> : d \in Durations}

\* what POST /transcribe requests may carry
TranscribeInputs ==
    {[audio |-> "audio-1", contentType |-> "audio/wav", language |-> "en",
      initialPrompt |-> "SwiftUI,Claude"],
     [audio |-> "audio-2", contentType |-> "audio/ogg", language |-> "none",
      initialPrompt |-> "none"]}

Called(vendor) == [hist EXCEPT !.vendorCalls = Append(@, vendor)]

\* transcribe.ts:121,125,132,134: every vendor client is handed the route's
\* locals; it sends a request to its vendor unless the credential is missing
CalledWith(vendor, args, outcome) ==
    [hist EXCEPT !.vendorCalls = IF outcome = -2 THEN @ ELSE Append(@, vendor),
                 !.calls = Append(@, [fn |-> vendor, args |-> args,
                                      outcome |-> outcome])]

isEdgeBlocked_AnyStatus(provider, status) == status >= 400

\* groq.ts:73-75 and transcribe.ts:119-123: GroqEdgeBlockedError is thrown by
\* the Groq client on 403, and caught only around the Groq call
isEdgeBlocked(provider, status) == provider = "groq" /\ status = 403

\* transcribe.ts:107-139: the provider named by the request is called
TranscribeVendor ==
    /\ MainAt("vendor")
    /\ rq.endpoint = "/transcribe"
    /\ \E provider \in Providers, outcome \in VendorOutcomes, args \in TranscribeInputs :
         LET r == [rq EXCEPT !.provider = provider, !.args = args]
             h == CalledWith(provider, args, outcome)
         IN  CASE outcome = -2 -> TranscribeFailed(h, r)
               [] outcome = -1 ->
                    \E answer \in Answers :
                        TranscribeFinish(h, r,
                            transcriptionResult(provider, answer[1], answer[2]), "none")
               [] outcome >= 0 /\ isEdgeBlocked(provider, outcome) ->
                    /\ rq' = r
                    /\ hist' = h
                    /\ Goto(R, "main", "fallback")
                    /\ amt' = amt
               [] outcome >= 0 /\ ~isEdgeBlocked(provider, outcome) ->
                    TranscribeFailed(h, r)
    /\ UNCHANGED <<deviceVars, notDevice, sumDeducted, nDeducted, routeGhost>>

\* transcribe.ts:123-126: Groq answered 403, Deepgram is called instead; an
\* error of this call leaves the inner catch for the outer one
TranscribeFallback ==
    /\ MainAt("fallback")
    /\ rq.endpoint = "/transcribe"
    /\ \E outcome \in VendorOutcomes :
         LET h == CalledWith("deepgram", rq.args, outcome)
         IN  CASE outcome = -2 -> TranscribeFailed(h, rq)
               [] outcome = -1 ->
                    \E answer \in Answers :
                        TranscribeFinish(h, rq,
                            transcriptionResult("deepgram", answer[1], answer[2]), "groq")
               [] outcome >= 0 -> TranscribeFailed(h, rq)
    /\ UNCHANGED <<deviceVars, notDevice, sumDeducted, nDeducted, routeGhost>>

\* ----------------------------------------------- routes: /post-process
BodyCases == {"bad_type", "bad_json", "no_text", "too_long", "no_prompt", "ok"}
InputTexts == {InputPlain, InputWithMarker}

\* post-process.ts:39-65: Content-Type, JSON body, text and prompt fields
PostProcessBody ==
    /\ MainAt("validate")
    /\ rq.endpoint = "/post-process"
    /\ \E bc \in BodyCases :
         IF bc = "ok"
         THEN /\ \E text \in InputTexts : rq' = [rq EXCEPT !.text = trim(text)]
              /\ Goto(R, "main", "auth")
         ELSE /\ Respond(400, bc)
              /\ Goto(R, "main", "done")
    /\ UNCHANGED <<deviceVars, notDevice, amt, hist, overlapped, sumDeducted, nDeducted,
                   opsStarted>>

LLMProviders == {"cerebras", "groq"}

\* post-process.ts:89,94,108: retries allowed for a correction vendor
retriesFor(provider) == IF provider = "cerebras" THEN 0 ELSE 3

\* post-process.ts:93,107
alternateOf(provider) == IF provider = "cerebras" THEN "groq" ELSE "cerebras"

Word(w) == [kind |-> "word", text |-> w, digits |-> 0]
Space == [kind |-> "space", text |-> " ", digits |-> 0]
Digits(n) == [kind |-> "digits", text |-> "", digits |-> n]

\* cerebras.ts:43-46: the error thrown for a response that is not ok
httpError(status) ==
    [thrown |-> TRUE, hasStatus |-> TRUE, status |-> status, cause |-> status,
     message |-> <<Word("Cerebras"), Space, Word("chat"), Space, Word("failed"),
                   Space, Word("with"), Space, Word("status"), Space,
                   Digits(status)>>]

\* an error that names the status in its message only
messageError(status) ==
    [thrown |-> TRUE, hasStatus |-> FALSE, status |-> 0, cause |-> status,
     message |-> <<Word("upstream"), Space, Word("Status"), Space, Space,
                   Digits(status)>>]

\* cerebras.ts:14-17: the credential is missing
configError ==
    [thrown |-> TRUE, hasStatus |-> FALSE, status |-> 0, cause |-> 0,
     message |-> <<Word("CEREBRAS_API_KEY"), Space, Word("not"), Space,
                   Word("configured")>>]

\* the request itself threw (fetch), or an error whose message holds a
\* number that no "status" precedes
networkError ==
    [thrown |-> TRUE, hasStatus |-> FALSE, status |-> 0, cause |-> 0,
     message |-> <<Word("fetch"), Space, Word("failed"), Space, Digits(503)>>]

\* llm-provider.ts getErrorStatus: the status field, else the three digits
\* that follow "status" and white space in the message (/status\s+(\d{3})/i),
\* else undefined (0)
getErrorStatus(error) ==
    IF error.hasStatus THEN error.status
    ELSE LET msg == error.message
             isStatus(i) == msg[i].kind = "word" /\ msg[i].text \in {"status", "Status", "STATUS"}
             hit(i, j) == /\ isStatus(i) /\ j > i + 1 /\ msg[j].kind = "digits"
                          /\ \A k \in i + 1 .. j - 1 : msg[k].kind = "space"
             hits == {j \in 1 .. Len(msg) : \E i \in 1 .. Len(msg) : hit(i, j)}
         IN  IF hits = {} THEN 0
             ELSE msg[CHOOSE j \in hits : \A h \in hits : j <= h].digits

shouldFallback_Always(error) == TRUE

\* llm-provider.ts shouldFallback
shouldFallback(error) ==
    LET status == getErrorStatus(error) IN status >= 500 /\ status <= 599

\* token usage a correction vendor may report
NoTokens == [present |-> FALSE, prompt_tokens |-> 0, completion_tokens |-> 0]
Usages == {NoTokens,
           [present |-> TRUE, prompt_tokens |-> 2000, completion_tokens |-> 1000]}

\* cerebras.ts:50-51 (and its Groq counterpart): the cost of one answer
chatCost(provider, usage) ==
    IF ~usage.present THEN 0
    ELSE IF provider = "cerebras" THEN computeCerebrasChatCost(usage)
    ELSE computeGroqChatCost(usage)

\* bodies a correction vendor may answer with: the text extractCorrectedText
\* finds in it, or none
NoText == [hasText |-> FALSE, text |-> <<>>]
RawAnswers == {NoText} \cup
              {[hasText |-> TRUE, text |-> t] :
                    t \in {OutputPlain, OutputMarked, OutputLeaked,
                           OutputLeakedAfterStrip, OutputLowerCase}}

\* post-process.ts:80-90: the vendor named by the request is called first
PostProcessStart ==
    /\ MainAt("vendor")
    /\ rq.endpoint = "/post-process"
    /\ \E provider \in LLMProviders :
         /\ rq' = [rq EXCEPT !.provider = provider, !.providerUsed = provider,
                          !.calling = provider, !.phase = "primary",
                          !.attempt = 0, !.maxRetries = retriesFor(provider)]
         /\ hist' = [hist EXCEPT !.vendorCalls = Append(@, provider),
                                  !.roles = Append(@, "primary"),
                                  !.caps = Append(@, retriesFor(provider))]
    /\ Goto(R, "main", "llm")
    /\ UNCHANGED <<deviceVars, notDevice, amt, overlapped, sumDeducted, nDeducted,
                   opsStarted>>

\* post-process.ts:130-158: the charge is deducted (not awaited) and the
\* corrected text returned; r is the request's locals at that point
\* (callWithRetry's own locals are gone)
PostProcessFinish(h, r) ==
    /\ rq' = [r EXCEPT !.response = [status |-> 200, error |-> "none",
                                     credits |-> creditsForCost(r.costUsd),
                                     requestId |-> TRUE],
                       !.calling = "none", !.phase = "none",
                       !.attempt = 0, !.maxRetries = 0]
    /\ deductCredits(h, r.costUsd, "done")

\* an error leaves the route: post-process.ts:97 answers 500 with the request
\* id, the application's onError answers 500 without it
PostProcessFailed(h, error, withRequestId) ==
    /\ rq' = [rq EXCEPT !.response = [status |-> 500, error |-> error,
                                      credits |-> 0, requestId |-> withRequestId],
                        !.calling = "none", !.phase = "none",
                        !.attempt = 0, !.maxRetries = 0]
    /\ hist' = h
    /\ Goto(R, "main", "done")
    /\ amt' = amt

\* callWithRetry is entered for the next vendor
CallNext(h, r, phase, provider) ==
    /\ rq' = [r EXCEPT !.phase = phase, !.calling = provider, !.attempt = 0,
                       !.maxRetries = retriesFor(provider)]
    /\ hist' = [h EXCEPT !.vendorCalls = Append(@, provider),
                         !.roles = Append(@, phase),
                         !.caps = Append(@, retriesFor(provider))]
    /\ Goto(R, "main", "llm")
    /\ amt' = amt

leakageDetected_Never(text) == FALSE

\* post-process.ts:104,114: the guard on a vendor's corrected text
leakageDetected(text) == containsPromptLeakage(text)

\* post-process.ts:91-99: the first callWithRetry threw
PrimaryThrew(h0, error) ==
    LET h == [h0 EXCEPT !.primaryFailure = error.cause] IN
    IF shouldFallback(error)
    THEN CallNext(h, [rq EXCEPT !.providerUsed = alternateOf(rq.provider)],
                  "fallback", alternateOf(rq.provider))
    ELSE PostProcessFailed(h, "Post-processing failed", TRUE)

\* post-process.ts:101-104: the answer of the first or the fallback vendor
FirstAnswered(h, raw, costUsd) ==
    IF ~raw.hasText
    THEN PostProcessFailed(h, "Internal server error", FALSE)
    ELSE LET correctedText == stripCleanMarkers(raw.text)
             r == [rq EXCEPT !.correctedText = correctedText, !.costUsd = costUsd]
             h1 == [h EXCEPT !.firstText = correctedText]
         IN  IF leakageDetected(correctedText)
             THEN CallNext(h1, r, "alternate", alternateOf(rq.providerUsed))
             ELSE PostProcessFinish(h1, r)

\* post-process.ts:118,122: costUsd += retryResponse.costUsd
bothCosts(costUsd, retryCostUsd) == costUsd + retryCostUsd

\* post-process.ts:111-127: the answer of the alternate vendor; without a text
\* in it extractCorrectedText throws inside the try and the catch of line 124
\* keeps the first cost
AlternateAnswered(h, raw, costUsd) ==
    IF ~raw.hasText
    THEN PostProcessFinish([h EXCEPT !.retry = "failed"],
                           [rq EXCEPT !.correctedText = rq.text])
    ELSE LET retryText == stripCleanMarkers(raw.text) IN
         PostProcessFinish([h EXCEPT !.retry = "answered", !.retryText = retryText],
           [rq EXCEPT
             !.correctedText = IF leakageDetected(retryText) THEN rq.text ELSE retryText,
             !.providerUsed = rq.calling,
             !.costUsd = bothCosts(rq.costUsd, costUsd)])

\* post-process.ts:124-127: the alternate callWithRetry threw
AlternateThrew(h) ==
    PostProcessFinish([h EXCEPT !.retry = "failed"], [rq EXCEPT !.correctedText = rq.text])

\* utils.ts:79-93: the catch of retryWithBackoff retries whatever was thrown
\* until attempt === maxRetries
retriesAgain(attempt, maxRetries, error) == attempt # maxRetries

ErrorStatuses == {401, 503}

\* what one vendor request may throw
VendorErrors ==
    {configError, networkError} \cup {httpError(st) : st \in ErrorStatuses}
        \cup {messageError(st) : st \in ErrorStatuses}

\* utils.ts retryWithBackoff around one vendor request (llm-provider.ts
\* callWithRetry), and what the route does with its outcome: the vendor
\* answers (NoError) or the request throws one of VendorErrors
LlmAttempt ==
    /\ MainAt("llm")
    /\ \E error \in {NoError} \cup VendorErrors :
         LET h == hist
         IN  IF ~error.thrown
             THEN \E raw \in RawAnswers, usage \in Usages :
                  LET costUsd == chatCost(rq.calling, usage)
                      hr == [h EXCEPT !.returned =
                               Append(@, [role |-> rq.phase, costUsd |-> costUsd])]
                  IN  IF rq.phase = "alternate"
                      THEN AlternateAnswered(hr, raw, costUsd)
                      ELSE FirstAnswered(hr, raw, costUsd)
             ELSE IF retriesAgain(rq.attempt, rq.maxRetries, error)
                  THEN /\ rq' = [rq EXCEPT !.attempt = @ + 1]
                       /\ hist' = h
                       /\ UNCHANGED <<pc, amt>>
                  ELSE CASE rq.phase = "primary" -> PrimaryThrew(h, error)
                         [] rq.phase = "fallback" ->
                              PostProcessFailed(h, "Internal server error", FALSE)
                         [] rq.phase = "alternate" -> AlternateThrew(h)
    /\ UNCHANGED <<deviceVars, notDevice, sumDeducted, nDeducted, routeGhost>>

\* --------------------------------------- routes: /ws/streaming-deepgram
alreadyEnded_Never(session) == FALSE

\* ws-streaming-deepgram.ts:146 `if (sessionEnded) return`
alreadyEnded(session) == session.sessionEnded

\* ws-streaming-deepgram.ts:165 `if (creditsUsed > 0)`
billsSession(creditsUsed) == creditsUsed > 0

sendToClient_Always(readyState) == TRUE

\* ws-streaming-deepgram.ts:66-70 sendToClient: is the message sent
sendToClient(readyState) == readyState = 1

\* the session with `type` noted if it is sent after session_complete
noted(w, type) ==
    IF w.sessionComplete > 0 THEN [w EXCEPT !.afterComplete = @ \cup {type}] ELSE w

\* ws-streaming-deepgram.ts:129 generateRequestId(): the requests of a run
\* are numbered
requestId == opsStarted

connectsUpstream_Always(apiKey) == TRUE

\* ws-streaming-deepgram.ts:185-189: onOpen returns before the upstream
\* socket is created when the credential is missing
connectsUpstream(apiKey) == apiKey

endsSession_OnError(event) == event \in {"close", "error"}

\* ws-streaming-deepgram.ts:219-228, 264-275: the socket events whose
\* handler calls endSession
endsSession(event) == event = "close"

\* ws-streaming-deepgram.ts endSession, called with the session as its
\* caller left it.  It has no await: it runs to its end when called.
endSession(w) ==
    IF alreadyEnded(w)
    THEN /\ ws' = w
         /\ UNCHANGED <<pc, amt, hist>>
    ELSE LET costUsd == computeDeepgramTranscriptionCost(w.totalDurationSeconds)
             creditsUsed == creditsForCost(costUsd)
             toClient == sendToClient(w.clientReadyState)
         IN  /\ ws' = [w EXCEPT !.sessionEnded = TRUE,
                                !.pingInterval = FALSE,
                                !.sessionComplete = IF toClient THEN @ + 1 ELSE @,
                                !.completeEvent =
                                    IF toClient
                                    THEN [duration_seconds |-> w.totalDurationSeconds,
                                          credits_used |-> creditsUsed]
                                    ELSE @,
                                !.endedAt = w.clientReadyState,
                                !.endRuns = @ + 1]
             /\ IF billsSession(creditsUsed)
                THEN deductCredits(hist, costUsd, pc[R]["main"])
                ELSE UNCHANGED <<pc, amt, hist>>

sessionRest == <<deviceVars, storeRest, rq, sumDeducted, nDeducted, routeGhost>>

\* ws-streaming-deepgram.ts onOpen: the upstream socket is created
WsOnOpen ==
    /\ MainAt("ws_open")
    /\ \E apiKey \in BOOLEAN :
         IF ~connectsUpstream(apiKey)
         THEN /\ ws' = [ws EXCEPT !.clientReadyState = 2,
                                  !.errorsSent = @ + 1]
              /\ hist' = hist
         ELSE /\ ws' = [ws EXCEPT !.clientReadyState = 1,
                                  !.credential = apiKey,
                                  !.deepgramWs = "connecting",
                                  !.pingInterval = TRUE]
              /\ hist' = Called("deepgram-live")
    /\ Goto(R, "main", "ws_session")
    /\ UNCHANGED <<amt, sessionRest>>

\* the upstream socket's 'open' listener
DeepgramOpen ==
    /\ MainAt("ws_session")
    /\ ws.deepgramWs = "connecting"
    /\ LET w == [ws EXCEPT !.deepgramWs = "open"] IN
         ws' = IF sendToClient(ws.clientReadyState)
               THEN noted([w EXCEPT !.ready = @ + 1,
                                    !.readySessionId = requestId], "ready")
               ELSE w
    /\ UNCHANGED <<pc, amt, hist, sessionRest>>

WsDurations == {0, 5, 30000}     \* ms

\* ws-streaming-deepgram.ts:200 `if (data.type === 'Results')`
addsDuration(type) == type = "Results"

\* the upstream socket's 'message' listener
DeepgramMessage ==
    /\ MainAt("ws_session")
    /\ ws.deepgramWs \in {"open", "closing"}
    /\ ws.msgsSeen < MaxMsgs
    /\ \E type \in {"Results", "Metadata"}, duration \in WsDurations,
          transcript \in BOOLEAN, is_final \in BOOLEAN :
         LET w == [ws EXCEPT
                     !.totalDurationSeconds = IF addsDuration(type) /\ duration # 0
                                              THEN @ + duration ELSE @,
                     !.resultsBeforeEnd = IF type = "Results" /\ ~ws.sessionEnded
                                          THEN @ + duration ELSE @,
                     !.msgsSeen = @ + 1]
         IN  ws' = IF /\ type = "Results"
                      /\ transcript \/ is_final
                      /\ sendToClient(ws.clientReadyState)
                   THEN noted(w, "transcript")
                   ELSE w
    /\ UNCHANGED <<pc, amt, hist, sessionRest>>

onStop_Ignored(readyState) == readyState

\* ws-streaming-deepgram.ts:251-254: deepgramWs.close(1000, ...)
onStop(readyState) == "closing"

\* ws-streaming-deepgram.ts onMessage: a client 'stop' closes the upstream
ClientStop ==
    /\ MainAt("ws_session")
    /\ ws.clientReadyState = 1
    /\ ws.deepgramWs = "open"
    /\ ws' = [ws EXCEPT !.deepgramWs = onStop(@), !.stopped = TRUE]
    /\ UNCHANGED <<pc, amt, hist, sessionRest>>

\* the upstream socket's 'error' listener
DeepgramError ==
    /\ MainAt("ws_session")
    /\ ws.deepgramWs \in {"connecting", "open", "closing"}
    /\ ws.upstreamErrors + ws.clientErrors < MaxErrorEvents
    /\ LET w == [ws EXCEPT !.upstreamErrors = @ + 1,
                           !.errorsSent = IF sendToClient(ws.clientReadyState)
                                          THEN @ + 1 ELSE @]
       IN  IF endsSession("error")
           THEN endSession(w)
           ELSE /\ ws' = w
                /\ UNCHANGED <<pc, amt, hist>>
    /\ UNCHANGED sessionRest

\* ws-streaming-deepgram.ts onError of the client socket
ClientError ==
    /\ MainAt("ws_session")
    /\ ws.clientReadyState \in {1, 2}
    /\ ws.upstreamErrors + ws.clientErrors < MaxErrorEvents
    /\ ws' = [ws EXCEPT !.clientErrors = @ + 1,
                        !.errorsSent = IF sendToClient(ws.clientReadyState)
                                       THEN @ + 1 ELSE @]
    /\ UNCHANGED <<pc, amt, hist, sessionRest>>

forwards_WhileConnecting(readyState) == readyState \in {"connecting", "open"}

\* ws-streaming-deepgram.ts:238-240: onMessage goes on only when the
\* upstream socket exists and is OPEN
forwards(readyState) == readyState = "open"

\* ws-streaming-deepgram.ts:243-246: a binary frame from the client; the
\* frames are numbered as they arrive
ClientBinary ==
    /\ MainAt("ws_session")
    /\ ws.clientReadyState = 1
    /\ ws.framesIn < MaxFrames
    /\ LET frame == ws.framesIn + 1 IN
         ws' = [ws EXCEPT !.framesIn = frame,
                          !.openFrames = IF ws.deepgramWs = "open"
                                         THEN Append(@, frame) ELSE @,
                          !.forwarded = IF forwards(ws.deepgramWs)
                                        THEN Append(@, frame) ELSE @]
    /\ UNCHANGED <<pc, amt, hist, sessionRest>>

closesUpstream_AnyText(type) == TRUE

\* ws-streaming-deepgram.ts:248-262: the text frames that close the upstream
closesUpstream(type) == type = "stop"

\* ws-streaming-deepgram.ts:248-262: a text frame from the client that is
\* not 'stop': a pong, another JSON message, or text that is not JSON
ClientText ==
    /\ MainAt("ws_session")
    /\ ws.clientReadyState = 1
    /\ ws.ignored < MaxIgnored
    /\ \E type \in {"pong", "other", "not_json"} :
         ws' = [ws EXCEPT !.ignored = @ + 1,
                          !.deepgramWs = IF forwards(@) /\ closesUpstream(type)
                                         THEN onStop(@) ELSE @]
    /\ UNCHANGED <<pc, amt, hist, sessionRest>>

\* ws-streaming-deepgram.ts:197-217: an upstream message that does not
\* parse, or parses to something that is not a Results message
DeepgramIgnored ==
    /\ MainAt("ws_session")
    /\ ws.deepgramWs \in {"open", "closing"}
    /\ ws.ignored < MaxIgnored
    /\ \E type \in {"malformed", "Metadata", "UtteranceEnd"}, duration \in WsDurations :
         ws' = [ws EXCEPT !.ignored = @ + 1,
                          !.totalDurationSeconds = IF addsDuration(type) /\ duration # 0
                                                   THEN @ + duration ELSE @]
    /\ UNCHANGED <<pc, amt, hist, sessionRest>>

\* ws-streaming-deepgram.ts:230-235: the 30 s timer
KeepAlive ==
    /\ MainAt("ws_session")
    /\ ws.pingInterval
    /\ ws.pings < MaxPings
    /\ ws.clientReadyState = 1
    /\ ws' = noted([ws EXCEPT !.pings = @ + 1], "ping")
    /\ UNCHANGED <<pc, amt, hist, sessionRest>>

\* the upstream socket's 'close' listener, up to `await endSession()`
DeepgramClose ==
    /\ MainAt("ws_session")
    /\ ws.deepgramWs \in {"connecting", "open", "closing"}
    /\ endSession([ws EXCEPT !.deepgramWs = "closed",
                             !.closePending = @ \cup {"deepgram"}])
    /\ UNCHANGED sessionRest

\* ... and after it: the client socket is closed if it is still open
DeepgramCloseResume ==
    /\ "deepgram" \in ws.closePending
    /\ ws' = [ws EXCEPT !.closePending = @ \ {"deepgram"},
                        !.clientReadyState = IF @ = 1 THEN 2 ELSE @]
    /\ UNCHANGED <<pc, amt, hist, sessionRest>>

\* ws-streaming-deepgram.ts onClose, up to `await endSession()`
ClientClose ==
    /\ MainAt("ws_session")
    /\ ws.clientReadyState \in {1, 2}
    /\ endSession([ws EXCEPT !.clientReadyState = 3,
                             !.closePending = @ \cup {"client"}])
    /\ UNCHANGED sessionRest

\* ... and after it: the upstream socket is closed if it is open
ClientCloseResume ==
    /\ "client" \in ws.closePending
    /\ ws' = [ws EXCEPT !.closePending = @ \ {"client"},
                        !.deepgramWs = IF @ = "open" THEN "closing" ELSE @]
    /\ UNCHANGED <<pc, amt, hist, sessionRest>>

\* ------------------------------------------------ ledger specification
\* Concurrent trial-device operations on one device id: deductCredits'
\* deductDeviceCredits (credits.ts) and plain getDeviceBalance calls
\* (validateAuth, validateCredits, /usage), interleaved store command by
\* store command.

\* true costs (micro-USD) handed to deductCredits
LedgerCosts == {40, 75050}

InFlight(p) == pc[p]["dev"] # "idle"

\* credits.ts deductCredits, trial branch: creditsUsed = creditsForCost(costUsd),
\* then deductDeviceCredits(identifier, creditsUsed) is started
LedgerDeductStart(p) ==
    /\ pc[p]["dev"] = "idle"
    /\ opsStarted < MaxOps
    /\ \E cost \in LedgerCosts :
         /\ creditsForCost(cost) > 0
         /\ amt' = [amt EXCEPT ![p] = creditsForCost(cost)]
    /\ Goto(p, "dev", "d_get")
    /\ opsStarted' = opsStarted + 1
    /\ overlapped' = (overlapped \/ \E q \in Procs \ {p} : InFlight(q))
    /\ UNCHANGED <<deviceRec, bal, ver, rdVer, stale, storeErr, sumDeducted, nDeducted,
                   notDevice, rq, hist>>

\* auth.ts validateAuth, trial branch / credits.ts validateCredits: a plain
\* getDeviceBalance(deviceId) call is started
LedgerBalanceStart(p) ==
    /\ pc[p]["dev"] = "idle"
    /\ opsStarted < MaxOps
    /\ Goto(p, "dev", "b_get")
    /\ opsStarted' = opsStarted + 1
    /\ overlapped' = (overlapped \/ \E q \in Procs \ {p} : InFlight(q))
    /\ UNCHANGED <<deviceRec, bal, amt, ver, rdVer, stale, storeErr, sumDeducted,
                   nDeducted, notDevice, rq, hist>>

LedgerDeductRead(p) ==
    /\ GetBalanceRead(p, "dev", "d_get", "d_init", "d_set")
    /\ UNCHANGED <<amt, overlapped, sumDeducted, nDeducted, opsStarted, rq, hist>>

LedgerDeductInit(p) ==
    /\ GetBalanceInit(p, "dev", "d_init", "d_set")
    /\ UNCHANGED <<amt, overlapped, sumDeducted, nDeducted, opsStarted, rq, hist>>

LedgerDeductWrite(p) ==
    /\ DeductWrite(p, "dev", "d_set", "idle")
    /\ UNCHANGED <<amt, overlapped, opsStarted, rq, hist>>

LedgerBalanceRead(p) ==
    /\ GetBalanceRead(p, "dev", "b_get", "b_init", "idle")
    /\ UNCHANGED <<amt, overlapped, sumDeducted, nDeducted, opsStarted, rq, hist>>

LedgerBalanceInit(p) ==
    /\ GetBalanceInit(p, "dev", "b_init", "idle")
    /\ UNCHANGED <<amt, overlapped, sumDeducted, nDeducted, opsStarted, rq, hist>>

InitLedger ==
    /\ deviceRec = Missing
    /\ ipUsage = NoUsage
    /\ licCache = NoLicense
    /\ ipBlocked = FALSE
    /\ rq = NoRequest
    /\ hist = NoHistory
    /\ ws = NoSession
    /\ pc = [p \in Procs |-> [th \in Threads |-> "idle"]]
    /\ bal = [p \in Procs |-> [th \in Threads |-> NoBalance]]
    /\ amt = [p \in Procs |-> 0]
    /\ ver = 0
    /\ rdVer = [p \in Procs |-> 0]
    /\ stale = FALSE
    /\ overlapped = FALSE
    /\ storeErr = FALSE
    /\ sumDeducted = 0
    /\ nDeducted = 0
    /\ opsStarted = 0

NextLedger ==
    \E p \in Procs :
        \/ LedgerDeductStart(p)
        \/ LedgerBalanceStart(p)
        \/ LedgerDeductRead(p)
        \/ LedgerDeductInit(p)
        \/ LedgerDeductWrite(p)
        \/ LedgerBalanceRead(p)
        \/ LedgerBalanceInit(p)

SpecLedger == InitLedger /\ [][NextLedger]_vars

\* ------------------------------------------------- retry specification
\* callWithRetry called on its own, for either vendor and any retry cap.
\* nothing but the request's locals is involved
Quiet ==
    /\ deviceRec = Missing
    /\ ipUsage = NoUsage
    /\ licCache = NoLicense
    /\ ipBlocked = FALSE
    /\ ws = NoSession
    /\ bal = [p \in Procs |-> [th \in Threads |-> NoBalance]]
    /\ amt = [p \in Procs |-> 0]
    /\ ver = 0
    /\ rdVer = [p \in Procs |-> 0]
    /\ stale = FALSE
    /\ overlapped = FALSE
    /\ storeErr = FALSE
    /\ sumDeducted = 0
    /\ nDeducted = 0
    /\ opsStarted = 0

quietVars == <<deviceRec, ipUsage, licCache, ipBlocked, ws, bal, amt, ver, rdVer,
               stale, overlapped, storeErr, sumDeducted, nDeducted, opsStarted>>

\* index.ts:98-121 callWithRetry(provider, payload, requestId, maxRetries)
InitRetry ==
    /\ Quiet
    /\ \E provider \in LLMProviders, maxRetries \in 0 .. MaxRetryCap :
         rq = [NoRequest EXCEPT !.calling = provider, !.maxRetries = maxRetries]
    /\ hist = NoHistory
    /\ pc = [p \in Procs |-> [th \in Threads |->
                IF p = R /\ th = "main" THEN "llm" ELSE "idle"]]

\* index.ts:110-111: the options callWithRetry gives retryWithBackoff
initialDelayMs == 1000
backoffMultiplier == 2

RECURSIVE pow(_, _)
\* Math.pow for a natural exponent
pow(base, exponent) == IF exponent = 0 THEN 1 ELSE base * pow(base, exponent - 1)

delayMs_Constant(attempt) == initialDelayMs

\* utils.ts:86: the wait after failed attempt number `attempt`
delayMs(attempt) == initialDelayMs * pow(backoffMultiplier, attempt)

\* utils.ts retryWithBackoff: one pass of the loop, the vendor request
\* answering (NoError) or throwing
RetryAttempt ==
    /\ MainAt("llm")
    /\ \E error \in {NoError} \cup VendorErrors :
         /\ IF ~error.thrown
            THEN /\ Goto(R, "main", "returned")
                 /\ rq' = rq
                 /\ hist' = [hist EXCEPT !.attempts = Append(@, error)]
            ELSE IF retriesAgain(rq.attempt, rq.maxRetries, error)
                 THEN /\ rq' = [rq EXCEPT !.attempt = @ + 1]
                      /\ pc' = pc
                      /\ hist' = [hist EXCEPT !.attempts = Append(@, error),
                                              !.delays = Append(@, delayMs(rq.attempt))]
                 ELSE /\ Goto(R, "main", "threw")
                      /\ rq' = rq
                      /\ hist' = [hist EXCEPT !.attempts = Append(@, error),
                                              !.rethrown = error]
    /\ UNCHANGED quietVars

NextRetry == RetryAttempt

SpecRetry == InitRetry /\ [][NextRetry]_vars

\* every vendor request ends: it answers or it throws
SpecRetryLive == SpecRetry /\ WF_vars(RetryAttempt)

\* ------------------------------------------------- license specification
\* validateAuth called again and again with one license key, with and
\* without forced refresh, while the key's cache entry may expire.
InitAuth ==
    /\ licCache \in InitialLicenses
    /\ deviceRec = Missing
    /\ ipUsage = NoUsage
    /\ ipBlocked = FALSE
    /\ ws = NoSession
    /\ rq = NoRequest
    /\ hist = NoHistory
    /\ pc = [p \in Procs |-> [th \in Threads |-> "idle"]]
    /\ bal = [p \in Procs |-> [th \in Threads |-> NoBalance]]
    /\ amt = [p \in Procs |-> 0]
    /\ ver = 0
    /\ rdVer = [p \in Procs |-> 0]
    /\ stale = FALSE
    /\ overlapped = FALSE
    /\ storeErr = FALSE
    /\ sumDeducted = 0
    /\ nDeducted = 0
    /\ opsStarted = 0

\* auth.ts:179-187 validateAuth({ licenseKey }, forceRefresh), once the
\* previous call has returned
AuthCall ==
    /\ pc[R]["main"] \in {"idle", "done", afterAuth("/transcribe")}
    /\ opsStarted < MaxAuthCalls
    /\ \E forceRefresh \in BOOLEAN :
         /\ hist' = [hist EXCEPT
                       !.denied = "none",
                       !.auth = Append(@, [NoAuthCall EXCEPT
                                  !.forceRefresh = forceRefresh,
                                  !.cacheRead = IF forceRefresh THEN "skipped"
                                                ELSE "none"])]
         /\ Goto(R, "main", licenseStep(forceRefresh))
    /\ rq' = [NoRequest EXCEPT !.endpoint = "/transcribe"]
    /\ opsStarted' = opsStarted + 1
    /\ UNCHANGED <<deviceVars, notDevice, amt, overlapped, sumDeducted, nDeducted>>

\* redis.ts:184 `{ ex: LICENSE_CACHE_TTL_SECONDS }`: the store drops the key
\* when its time to live has elapsed
LicenseExpire ==
    /\ licCache.exists
    /\ licCache' = NoLicense
    /\ UNCHANGED <<deviceVars, ipUsage, ipBlocked, ws, pc, amt, rq, hist, overlapped,
                   sumDeducted, nDeducted, opsStarted>>

NextAuth ==
    \/ AuthCall
    \/ AuthCacheLookup
    \/ AuthRemoteValidate
    \/ AuthCacheWrite
    \/ LicenseExpire

SpecAuth == InitAuth /\ [][NextAuth]_vars

\* ------------------------------------------------- text specification
\* The text functions on their own: stripCleanMarkers on vendor outputs and
\* the two buildDeepgramUrl on a language and a vocabulary hint.

\* a sequence of characters repeated
RECURSIVE repeat(_, _)
repeat(str, n) == IF n = 0 THEN <<>> ELSE str \o repeat(str, n - 1)

\* what may stand between two separators of a hint, and the term it is
\* written for (none when keep is FALSE)
HintEntries ==
    {[raw |-> <<"a", "b">>, keep |-> TRUE, term |-> <<"a", "b">>],
     [raw |-> <<" ", "c", " ", "d", "\t">>, keep |-> TRUE, term |-> <<"c", " ", "d">>],
     [raw |-> <<"-", " ", "e">>, keep |-> TRUE, term |-> <<"e">>],
     [raw |-> <<" ", "*", "-", "f">>, keep |-> TRUE, term |-> <<"-", "f">>],
     [raw |-> <<>>, keep |-> FALSE, term |-> <<>>],
     [raw |-> <<" ", "-", " ">>, keep |-> FALSE, term |-> <<>>],
     [raw |-> <<"-", " ">> \o repeat(<<"x">>, 50), keep |-> TRUE,
      term |-> repeat(<<"x">>, 50)],
     [raw |-> repeat(<<"y">>, 51), keep |-> FALSE, term |-> <<>>]}

Separators == {<<",">>, <<";", "\n">>}

\* a hint composed of entries es with separators ss between them
RECURSIVE composed(_, _, _)
composed(es, ss, n) ==
    IF n = 0 THEN <<>>
    ELSE IF n = 1 THEN es[1].raw
    ELSE composed(es, ss, n - 1) \o ss[n - 1] \o es[n].raw

\* the terms a composed hint is written for, in order
RECURSIVE termsOf(_, _)
termsOf(es, n) ==
    IF n = 0 THEN <<>>
    ELSE termsOf(es, n - 1) \o (IF es[n].keep THEN <<es[n].term>> ELSE <<>>)

\* the decimal digits of a natural number
RECURSIVE decimal(_)
decimal(n) ==
    LET digit == <<"0", "1", "2", "3", "4", "5", "6", "7", "8", "9">>
    IN  IF n < 10 THEN <<digit[n + 1]>>
        ELSE decimal(n \div 10) \o <<digit[(n % 10) + 1]>>

\* long vocabularies: k1,k2,...,kn
BulkSizes == {MAX_KEYWORDS - 1, MAX_KEYWORDS, MAX_KEYWORDS + 1, MAX_KEYWORDS + 50}
bulkTerms(n) == [i \in 1 .. n |-> <<"k">> \o decimal(i)]

Languages == {<<>>, auto, <<"A", "u", "t", "o">>, <<"e", "n">>}

\* pieces of a vendor's output
OutputPieces ==
    {<<"o", "k">>, <<" ">>,
     <<"<", "<", "C", "L", "E", "A", "N", "E", "D", ">", ">">>,
     <<"<", "e", "n", "d", ">">>,
     <<"<", "<", "C", "L", "E">>, <<"A", "N", "E", "D", ">", ">">>,
     <<"<">>, <<">">>}

RECURSIVE concat(_, _)
concat(ps, n) == IF n = 0 THEN <<>> ELSE concat(ps, n - 1) \o ps[n]

InitText ==
    /\ Quiet
    /\ \/ \E n \in 0 .. MaxPieces : \E ps \in [1 .. n -> OutputPieces] :
            /\ rq = [NoRequest EXCEPT !.text = concat(ps, n)]
            /\ hist = NoHistory
            /\ pc = [p \in Procs |-> [th \in Threads |->
                        IF p = R /\ th = "main" THEN "strip" ELSE "idle"]]
       \/ \E language \in Languages :
            /\ \/ \E n \in 0 .. MaxEntries :
                    \E es \in [1 .. n -> HintEntries], ss \in [1 .. n - 1 -> Separators] :
                      /\ rq = [NoRequest EXCEPT
                                 !.query = [language |-> language,
                                            hint |-> composed(es, ss, n)]]
                      /\ hist = [NoHistory EXCEPT !.entries = termsOf(es, n)]
               \/ \E n \in BulkSizes :
                      /\ rq = [NoRequest EXCEPT
                                 !.query = [language |-> language,
                                            hint |-> join(bulkTerms(n), <<",">>)]]
                      /\ hist = [NoHistory EXCEPT !.entries = bulkTerms(n)]
            /\ pc = [p \in Procs |-> [th \in Threads |->
                        IF p = R /\ th = "main" THEN "url" ELSE "idle"]]

\* post-process.ts:101: stripCleanMarkers on a vendor's output
StripMarkers ==
    /\ MainAt("strip")
    /\ rq' = [rq EXCEPT !.correctedText = stripCleanMarkers(rq.text)]
    /\ Goto(R, "main", "stripped")
    /\ UNCHANGED <<hist, quietVars>>

\* stripCleanMarkers on its own result
StripMarkersAgain ==
    /\ MainAt("stripped")
    /\ hist' = [hist EXCEPT !.twice = stripCleanMarkers(rq.correctedText)]
    /\ Goto(R, "main", "restripped")
    /\ UNCHANGED <<rq, quietVars>>

\* deepgram.ts:65-66
BuildBatchUrl ==
    /\ MainAt("url")
    /\ ~hist.batchUrl.built
    /\ hist' = [hist EXCEPT !.batchUrl = batchUrlFor(rq.query.language, rq.query.hint)]
    /\ UNCHANGED <<rq, pc, quietVars>>

\* ws-streaming-deepgram.ts:143
BuildStreamingUrl ==
    /\ MainAt("url")
    /\ ~hist.streamUrl.built
    /\ hist' = [hist EXCEPT
                  !.streamUrl = streamingUrlFor(rq.query.language, rq.query.hint)]
    /\ UNCHANGED <<rq, pc, quietVars>>

NextText == StripMarkers \/ StripMarkersAgain \/ BuildBatchUrl \/ BuildStreamingUrl

SpecText == InitText /\ [][NextText]_vars

\* ------------------------------------------------- route specification
\* One request slot serving requests one after another, on any of the three
\* endpoints, against a store in any state earlier requests can have left.
usedUp(credits) ==
    [exists |-> TRUE,
     credits_remaining |-> TRIAL_CREDIT_ALLOCATION * 100 - credits,
     total_allocated |-> TRIAL_CREDIT_ALLOCATION * 100,
     credits_used |-> credits]

InitialDevices == {Missing, initialBalance, usedUp(14900), usedUp(15000)}
InitialUsages == {NoUsage, [exists |-> TRUE, value |-> 1490],
                  [exists |-> TRUE, value |-> 1500]}

Init ==
    /\ \/ /\ deviceRec \in InitialDevices
          /\ ipUsage \in InitialUsages
          /\ licCache = NoLicense
          /\ ipBlocked = FALSE
       \/ /\ deviceRec = Missing
          /\ ipUsage = NoUsage
          /\ licCache \in InitialLicenses
          /\ ipBlocked \in BOOLEAN
    /\ rq = NoRequest
    /\ hist = NoHistory
    /\ ws = NoSession
    /\ pc = [p \in Procs |-> [th \in Threads |-> "idle"]]
    /\ bal = [p \in Procs |-> [th \in Threads |-> NoBalance]]
    /\ amt = [p \in Procs |-> 0]
    /\ ver = 0
    /\ rdVer = [p \in Procs |-> 0]
    /\ stale = FALSE
    /\ overlapped = FALSE
    /\ storeErr = FALSE
    /\ sumDeducted = 0
    /\ nDeducted = 0
    /\ opsStarted = 0

Next ==
    \/ RequestStart
    \/ WsUpgradeCheck
    \/ IpBlockCheck
    \/ TranscribeHeaders
    \/ PostProcessBody
    \/ AuthDispatch
    \/ AuthCacheLookup
    \/ AuthRemoteValidate
    \/ AuthCacheWrite
    \/ AuthDeviceRead
    \/ AuthDeviceInit
    \/ AuthTrial
    \/ CreditsDispatch
    \/ CreditsDeviceRead
    \/ CreditsDeviceInit
    \/ CreditsDeviceCheck
    \/ CreditsRateLimit
    \/ TranscribeVendor
    \/ TranscribeFallback
    \/ PostProcessStart
    \/ LlmAttempt
    \/ WsOnOpen
    \/ DeepgramOpen
    \/ DeepgramMessage
    \/ ClientStop
    \/ DeepgramClose
    \/ DeepgramCloseResume
    \/ ClientClose
    \/ ClientCloseResume
    \/ BillDeviceRead
    \/ BillDeviceInit
    \/ BillDeviceWrite
    \/ BillUsageRead
    \/ BillUsageWrite
    \/ BillRemoteAnswer
    \/ BillCacheWrite

Spec == Init /\ [][Next]_vars

\* ------------------------------------------------ quota specification
\* Trial requests from one IP address on one UTC date, in flight together:
\* validateCredits' checkRateLimit before the vendor call, deductCredits'
\* incrementUsage after it, interleaved store command by store command.
\* amt[p] is the request's estimate, which is also what it is charged.
QuotaEstimates == {estimateFor("/post-process", 0), estimateFor("/transcribe", 1)}

\* admitted by checkRateLimit, its usage not yet written
Admitted(p) == pc[p]["ip"] \in {"q_serve", "q_get", "q_set"}

\* transcribe.ts:101 / post-process.ts:75: a trial request reaches
\* validateCredits with its estimate
QuotaArrive(p) ==
    /\ pc[p]["ip"] = "idle"
    /\ opsStarted < MaxOps
    /\ \E estimatedCredits \in QuotaEstimates :
         amt' = [amt EXCEPT ![p] = estimatedCredits]
    /\ Goto(p, "ip", "q_check")
    /\ opsStarted' = opsStarted + 1
    /\ overlapped' = (overlapped \/ \E q \in Procs \ {p} : Admitted(q))
    /\ UNCHANGED <<deviceVars, storeRest, ws, rq, hist, sumDeducted, nDeducted>>

\* rate-limit.ts checkRateLimit, and validateCredits' use of its answer
QuotaCheck(p) ==
    /\ pc[p]["ip"] = "q_check"
    /\ \E ok \in BOOLEAN :
         Goto(p, "ip", IF checkRateLimit(ok, amt[p]).allowed THEN "q_serve" ELSE "idle")
    /\ UNCHANGED <<deviceVars, storeRest, ws, rq, hist, amt, sumDeducted, nDeducted,
                   routeGhost>>

\* the vendor has answered: credits.ts deductCredits starts incrementUsage
QuotaServed(p) ==
    /\ pc[p]["ip"] = "q_serve"
    /\ Goto(p, "ip", "q_get")
    /\ UNCHANGED <<deviceVars, storeRest, ws, rq, hist, amt, sumDeducted, nDeducted,
                   routeGhost>>

\* rate-limit.ts incrementUsage: `await redis.get().get(rateLimitKey)`
QuotaUsageRead(p) ==
    /\ pc[p]["ip"] = "q_get"
    /\ \E ok \in BOOLEAN :
         IF ok
         THEN /\ bal' = [bal EXCEPT ![p]["ip"] =
                          [NoBalance EXCEPT !.creditsUsed =
                              roundToTenth(IF ipUsage.exists THEN parseFloat(ipUsage.value)
                                           ELSE 0)]]
              /\ Goto(p, "ip", "q_set")
         ELSE /\ bal' = bal
              /\ Goto(p, "ip", afterDeductionError)
    /\ UNCHANGED <<deviceRec, ver, rdVer, stale, storeErr, storeRest, ws, rq, hist, amt,
                   sumDeducted, nDeducted, routeGhost>>

\* rate-limit.ts incrementUsage: `await redis.get().set(rateLimitKey, ...)`
QuotaUsageWrite(p) ==
    /\ pc[p]["ip"] = "q_set"
    /\ \E ok \in BOOLEAN :
         ipUsage' = IF ok
                    THEN [exists |-> TRUE,
                          value |-> incrementedUsage(bal[p]["ip"].creditsUsed, amt[p])]
                    ELSE ipUsage
    /\ Goto(p, "ip", "idle")
    /\ UNCHANGED <<deviceVars, licCache, ipBlocked, ws, rq, hist, amt, sumDeducted,
                   nDeducted, routeGhost>>

InitQuota ==
    /\ deviceRec = Missing
    /\ ipUsage \in InitialUsages
    /\ licCache = NoLicense
    /\ ipBlocked = FALSE
    /\ rq = NoRequest
    /\ hist = NoHistory
    /\ ws = NoSession
    /\ pc = [p \in Procs |-> [th \in Threads |-> "idle"]]
    /\ bal = [p \in Procs |-> [th \in Threads |-> NoBalance]]
    /\ amt = [p \in Procs |-> 0]
    /\ ver = 0
    /\ rdVer = [p \in Procs |-> 0]
    /\ stale = FALSE
    /\ overlapped = FALSE
    /\ storeErr = FALSE
    /\ sumDeducted = 0
    /\ nDeducted = 0
    /\ opsStarted = 0

NextQuota ==
    \E p \in Procs :
        \/ QuotaArrive(p)
        \/ QuotaCheck(p)
        \/ QuotaServed(p)
        \/ QuotaUsageRead(p)
        \/ QuotaUsageWrite(p)

SpecQuota == InitQuota /\ [][NextQuota]_vars

\* ---------------------------------------------- session specification
\* GET /ws/streaming-deepgram alone, with every event of its two sockets
SessionStart == Arrives(STREAMING)

NextSession ==
    \/ SessionStart
    \/ WsUpgradeCheck
    \/ IpBlockCheck
    \/ AuthDispatch
    \/ AuthCacheLookup
    \/ AuthRemoteValidate
    \/ AuthCacheWrite
    \/ AuthDeviceRead
    \/ AuthDeviceInit
    \/ AuthTrial
    \/ WsOnOpen
    \/ DeepgramOpen
    \/ DeepgramMessage
    \/ ClientStop
    \/ DeepgramError
    \/ ClientError
    \/ KeepAlive
    \/ DeepgramClose
    \/ DeepgramCloseResume
    \/ ClientClose
    \/ ClientCloseResume
    \/ BillDeviceRead
    \/ BillDeviceInit
    \/ BillDeviceWrite
    \/ BillUsageRead
    \/ BillUsageWrite
    \/ BillRemoteAnswer
    \/ BillCacheWrite

\* the store before the session: a trial device not yet seen or with its
\* initial balance, or a license key cached as valid
InitSession ==
    /\ Init
    /\ ipBlocked = FALSE
    /\ ipUsage = NoUsage
    /\ deviceRec \in {Missing, initialBalance}
    /\ licCache \in {NoLicense, [exists |-> TRUE, isValid |-> TRUE, credits |-> 5000,
                                 ex |-> LICENSE_CACHE_TTL_SECONDS]}

SpecSession == InitSession /\ [][NextSession]_vars

\* ------------------------------------------------ relay specification
\* the session of a caller with a license key cached as valid, with the
\* frames of the client and the messages of the vendor that are relayed
\* or ignored
InitRelay ==
    /\ InitSession
    /\ deviceRec = Missing
    /\ licCache.exists

NextRelay ==
    \/ SessionStart
    \/ WsUpgradeCheck
    \/ IpBlockCheck
    \/ AuthDispatch
    \/ AuthCacheLookup
    \/ AuthRemoteValidate
    \/ AuthCacheWrite
    \/ WsOnOpen
    \/ DeepgramOpen
    \/ DeepgramMessage
    \/ DeepgramIgnored
    \/ ClientBinary
    \/ ClientText
    \/ ClientStop
    \/ DeepgramClose
    \/ DeepgramCloseResume
    \/ ClientClose
    \/ ClientCloseResume
    \/ BillRemoteAnswer
    \/ BillCacheWrite

SpecRelay == InitRelay /\ [][NextRelay]_vars

\* the upstream socket's close event is delivered once its close was
\* initiated, and the continuation of an `await endSession()` runs
SpecSessionLive ==
    /\ SpecSession
    /\ WF_vars(DeepgramClose /\ ws.deepgramWs = "closing")
    /\ WF_vars(DeepgramCloseResume)

\* ---------------------------------------------------------------- claims
Served == rq.response.status = 200
Billed ==
    \/ hist.deviceWrites > 0 \/ hist.ipWrites > 0 \/ hist.remotePosts > 0
    \/ ~BillingIdle

\* C1: a streaming session bills exactly once.  Whatever the order of the
\* client-socket and upstream-socket close events, endSession runs its
\* billing step at most once (and has run once either socket has closed);
\* deductCredits is called exactly once when the charge for D is above zero,
\* with computeDeepgramTranscriptionCost(D), and never otherwise, D being the
\* sum of the durations of the Results messages received before it ran.
C1_BillsExactlyOnce ==
    rq.endpoint = STREAMING =>
        LET costUsd == computeDeepgramTranscriptionCost(ws.resultsBeforeEnd) IN
        /\ ws.endRuns <= 1
        /\ (ws.clientReadyState = 3 \/ ws.deepgramWs = "closed") =>
               (ws.sessionEnded /\ ws.endRuns = 1)
        /\ hist.deductCalls =
               IF ws.sessionEnded /\ creditsForCost(costUsd) > 0 THEN <<costUsd>>
               ELSE <<>>

\* C1 witness: both close handlers have run back to back (each is still
\* waiting on endSession) in a session that was billed once for its audio
C1_Witness ==
    /\ rq.endpoint = STREAMING
    /\ ws.closePending = {"client", "deepgram"}
    /\ ws.resultsBeforeEnd >= 30000
    /\ Len(hist.deductCalls) = 1

\* C2 (as stated): on every endpoint, validateCredits has returned ok for
\* the request before its first call or connection to a billable vendor.
C2_CheckPrecedesVendor == hist.vendorCalls # <<>> => hist.validated

\* C3 (as stated): the usage recorded for a trial device never exceeds its
\* total allocation.
C3_NeverExceedsAllocation ==
    deviceRec.exists => deviceRec.credits_used <= deviceRec.total_allocated

C5_ZeroCostNeverBilled ==
    LET noCharge ==
          CASE rq.endpoint = "/transcribe" ->
                 Served /\ (rq.result.source = "no_speech"
                              \/ creditsForCost(rq.result.costUsd) = 0)
            [] rq.endpoint = "/post-process" ->
                 Served /\ creditsForCost(rq.costUsd) = 0
            [] rq.endpoint = STREAMING ->
                 creditsForCost(computeDeepgramTranscriptionCost(ws.resultsBeforeEnd)) = 0
            [] OTHER -> FALSE
    IN  noCharge => ~Billed

\* C5 witness: a transcription with a transcript and a zero cost reached
\* deductCredits, and the request is over
C5_Witness ==
    /\ rq.endpoint = "/transcribe" /\ Served
    /\ rq.result.source # "no_speech"
    /\ hist.deductCalls = <<0>>
    /\ MainAt("done")


\* C6: for one device whose deductions a1..aN are applied one after another
\* (no operation on the device overlaps another, no store command fails),
\* the stored creditsRemaining equals max(0, initialAllocation - (a1+..+aN))
\* rounded to the nearest tenth, and is never negative.
C6_SequentialBalance ==
    (~overlapped /\ ~storeErr /\ deviceRec.exists) =>
        /\ deviceRec.credits_remaining =
               roundToTenth(Max(0, TRIAL_CREDIT_ALLOCATION * 100 - sumDeducted))
        /\ deviceRec.credits_remaining >= 0

\* C6 witness: three sequential deductions whose sum exceeds the allocation
C6_Witness ==
    /\ ~overlapped /\ ~storeErr /\ deviceRec.exists
    /\ nDeducted = 3
    /\ sumDeducted > TRIAL_CREDIT_ALLOCATION * 100
    /\ deviceRec.credits_remaining = 0

\* C7 (as stated): every value of creditsRemaining written to the store is
\* less than or equal to the value it replaces, for every interleaving of
\* concurrent requests on the device id.
C7_MonotoneEveryInterleaving ==
    [][(deviceRec.exists /\ deviceRec'.exists) =>
           deviceRec'.credits_remaining <= deviceRec.credits_remaining]_vars

\* C7 (amended): a write whose writer read the record it replaces (no other
\* write to the device id landed between the writer's read and its write)
\* never raises creditsRemaining.
C7_MonotoneUnlessInterleaved ==
    [][(deviceRec.exists /\ deviceRec'.exists /\ ~stale') =>
           deviceRec'.credits_remaining <= deviceRec.credits_remaining]_vars

\* C7 witness: with two operations in flight together, a deduction replaced
\* an existing record that it had read
C7_Witness ==
    /\ overlapped /\ ~stale /\ ver >= 2 /\ nDeducted >= 1
    /\ deviceRec.exists
    /\ deviceRec.credits_remaining < TRIAL_CREDIT_ALLOCATION * 100

\* C8: on POST /transcribe and POST /post-process, when the IP-block check,
\* validateAuth or validateCredits fails, the route returns that error at
\* once: no vendor is called and nothing is deducted (no device-balance
\* write, no IP-usage write, no usage-recording request) for the request.
C8_FailedCheckShortCircuits ==
    (rq.endpoint \in {"/transcribe", "/post-process"} /\ hist.denied # "none") =>
        /\ MainAt("done")
        /\ rq.response.status =
             CASE hist.denied = "ipblock" -> 403
               [] hist.denied = "auth" -> 401
               [] hist.denied = "credits" ->
                    IF hist.decision = "IPRateLimited" THEN 429 ELSE 402
        /\ hist.vendorCalls = <<>>
        /\ hist.deductCalls = <<>>
        /\ ~Billed

\* C8 witness: a request denied by validateCredits has returned
C8_Witness ==
    /\ rq.endpoint \in {"/transcribe", "/post-process"}
    /\ hist.denied = "credits"
    /\ hist.decision = "DeviceCreditsExhausted"
    /\ MainAt("done")

\* C9: validateCredits admits exactly when: licensed - the balance rounded
\* to a tenth is at least the estimate, and no device or IP lookup is made;
\* trial - the device has credits left, at least the estimate, and the IP's
\* usage plus the estimate is at most the daily allocation.  It answers
\* InsufficientCredits for a licensed identity, DeviceCreditsExhausted when
\* the device condition fails (checked first), otherwise IPRateLimited.  (A
\* lookup that fails is answered as if the condition it serves had failed.)
C9_AdmitsExactlyWhen ==
    (hist.decision # "none" /\ (MainAt("vendor") \/ hist.decision # "ok")) =>
        LET estimate == rq.estimatedCredits
            usage == IF ipUsage.exists THEN ipUsage.value * 10 ELSE 0
            deviceOk == /\ deviceRec.exists
                        /\ deviceRec.credits_remaining > 0
                        /\ deviceRec.credits_remaining >= estimate
            ipOk == usage + estimate <= TRIAL_CREDIT_ALLOCATION * 100
        IN  IF rq.auth.type = "licensed"
            THEN /\ hist.decision =
                        IF ((rq.auth.credits + 5) \div 10) * 10 >= estimate THEN "ok"
                        ELSE "InsufficientCredits"
                 /\ hist.devLookups = 0 /\ hist.ipLookups = 0
            ELSE /\ hist.decision = "ok" => (~hist.lookupFailed /\ deviceOk /\ ipOk)
                 /\ ~hist.lookupFailed =>
                        hist.decision = IF ~deviceOk THEN "DeviceCreditsExhausted"
                                        ELSE IF ~ipOk THEN "IPRateLimited"
                                        ELSE "ok"
                 /\ hist.decision = "IPRateLimited" => deviceOk

\* C9 witness: a trial request admitted with its estimate exactly filling
\* both the device's remaining credits and the IP's daily allocation
C9_Witness ==
    /\ hist.decision = "ok" /\ MainAt("vendor")
    /\ rq.auth.type = "trial"
    /\ deviceRec.credits_remaining = rq.estimatedCredits
    /\ ipUsage.exists
    /\ ipUsage.value * 10 + rq.estimatedCredits = TRIAL_CREDIT_ALLOCATION * 100

\* C10 (as stated): for every admitted request of POST /transcribe and POST
\* /post-process, the credits deducted after the vendor call are at most
\* the estimate that was passed to validateCredits.
C10_EstimateCoversCharge ==
    rq.endpoint \in {"/transcribe", "/post-process"} =>
        \A i \in 1 .. Len(hist.deductCalls) :
            creditsForCost(hist.deductCalls[i]) <= rq.estimatedCredits

\* C11: when Groq, the selected transcription vendor, fails with HTTP 403,
\* exactly one fallback call is made, to Deepgram, with the same audio,
\* content type, language and prompt; the fallback's result is what is
\* returned and billed, and the vendor name reported with the response
\* names the fallback.
C11_EdgeBlockedFallsBackOnce ==
    LET calls == hist.calls
        n == Len(calls)
    IN  (rq.endpoint = "/transcribe" /\ n >= 1 /\ calls[1].fn = "groq"
            /\ calls[1].outcome = 403) =>
        /\ n <= 2
        /\ MainAt("done") => n = 2
        /\ n = 2 =>
              /\ calls[2].fn = "deepgram"
              /\ calls[2].args = calls[1].args
              /\ calls[2].args = rq.args
              /\ Served <=> calls[2].outcome = -1
        /\ Served =>
              /\ rq.result.source \in {"deepgram", "no_speech"}
              /\ rq.providerName = "deepgram (fallback from groq)"
              /\ hist.deductCalls =
                    IF rq.result.source = "no_speech" THEN <<>>
                    ELSE <<rq.result.costUsd>>
              /\ rq.result.source = "deepgram" =>
                    rq.result.costUsd =
                        computeDeepgramTranscriptionCost(rq.result.durationSeconds)

\* C11 witness: Groq answered 403, Deepgram then transcribed two minutes of
\* audio, which were billed at Deepgram's price
C11_Witness ==
    /\ rq.endpoint = "/transcribe" /\ Served
    /\ Len(hist.calls) = 2
    /\ hist.calls[1].fn = "groq" /\ hist.calls[1].outcome = 403
    /\ rq.result.source = "deepgram" /\ rq.result.durationSeconds = 120000
    /\ hist.deductCalls = <<computeDeepgramTranscriptionCost(120000)>>

\* C12: no other transcription failure triggers a fallback.  A Groq failure
\* other than HTTP 403, any failure of Deepgram or ElevenLabs as the selected
\* vendor, and a failure of the Deepgram fallback call each end the request
\* with a 500 response, no further vendor call and no deduction.
C12_OtherFailuresPropagate ==
    LET calls == hist.calls
        n == Len(calls)
        failed(c) == c.outcome \notin {-1}
        triggers(i) == i = 1 /\ calls[i].fn = "groq" /\ calls[i].outcome = 403
    IN  rq.endpoint = "/transcribe" =>
          \A i \in 1 .. n :
             (failed(calls[i]) /\ ~triggers(i)) =>
                /\ i = n
                /\ MainAt("done")
                /\ rq.response.status = 500
                /\ hist.deductCalls = <<>>
                /\ ~Billed

\* C12 witness: the Deepgram fallback call itself failed with a 503
C12_Witness ==
    /\ rq.endpoint = "/transcribe"
    /\ Len(hist.calls) = 2
    /\ hist.calls[1].outcome = 403
    /\ hist.calls[2].outcome = 503
    /\ rq.response.status = 500

\* C13: correction fallback is gated on the failure class.  When the call
\* to the selected correction vendor (after its own retries) fails with a
\* 5xx status, carried by the error's status field or by its message, the
\* alternate vendor is called once as fallback; when it fails with 401, any
\* other status or no status, no other vendor is called and the request
\* fails.
C13_FallbackOnlyOn5xx ==
    LET calls == hist.vendorCalls
        n == Len(calls)
        failure == hist.primaryFailure
    IN  rq.endpoint = "/post-process" =>
        /\ \A i \in 1 .. n : hist.roles[i] = "fallback" => (i = 2 /\ failure >= 500)
        /\ (failure >= 500 /\ failure <= 599) =>
              /\ n >= 2
              /\ hist.roles[2] = "fallback"
              /\ calls[2] # calls[1] /\ calls[2] \in LLMProviders
        /\ (failure >= 0 /\ failure < 500) =>
              /\ n = 1
              /\ MainAt("done")
              /\ rq.response.status = 500
              /\ hist.deductCalls = <<>>

\* C13 witness: the selected vendor failed with a 503 and the fallback
\* vendor's answer was returned
C13_Witness ==
    /\ rq.endpoint = "/post-process" /\ Served
    /\ hist.primaryFailure = 503
    /\ hist.roles = <<"primary", "fallback">>

\* C14 (as stated): whichever correction vendor the request selects, the
\* retry cap given to the vendor called as fallback is strictly greater than
\* the retry cap given to the vendor called as primary.
C14_FallbackCapExceedsPrimary ==
    rq.endpoint = "/post-process" =>
        \A i \in 1 .. Len(hist.roles) :
            hist.roles[i] = "fallback" => hist.caps[i] > hist.caps[1]

\* C15 (as stated): a missing vendor credential is fatal and never retried.
\* Once the vendor client has thrown its "not configured" error, no further
\* attempt is made, whatever retry cap callWithRetry was given.
C15_ConfigErrorNotRetried ==
    \A i \in 1 .. Len(hist.attempts) :
        hist.attempts[i] = configError => i = Len(hist.attempts)

\* C16 (as stated): when the alternate vendor's call made by the leakage guard
\* returns, the cost billed for the request is the sum of the actual costs of
\* the two calls that returned.
C16_BillsBothCalls ==
    \A i \in 1 .. Len(hist.returned) :
        hist.returned[i].role = "alternate" =>
            /\ i = 2
            /\ hist.deductCalls = <<hist.returned[1].costUsd + hist.returned[2].costUsd>>
            /\ rq.costUsd = hist.returned[1].costUsd + hist.returned[2].costUsd

\* the same, for the alternate answers that carry a text (clean or leaking)
C16_BillsBothCallsWithText ==
    \A i \in 1 .. Len(hist.returned) :
        hist.returned[i].role = "alternate" /\ hist.retry = "answered" =>
            /\ i = 2
            /\ hist.deductCalls = <<hist.returned[1].costUsd + hist.returned[2].costUsd>>
            /\ rq.costUsd = hist.returned[1].costUsd + hist.returned[2].costUsd

\* C17: for a specific (non-auto) language the term list transcribeWithDeepgram
\* forwards is exactly the first MAX_KEYWORDS, in original order, of the terms
\* the hint was written for (split on comma/semicolon/newline, trimmed, one
\* leading bullet stripped, empty and over-long entries dropped).
C17_FirstHundredTerms ==
    hist.batchUrl.built /\ rq.query.language # <<>>
                        /\ toLowerCase(rq.query.language) # auto =>
        LET want == [k \in 1 .. (IF Len(hist.entries) < 100 THEN Len(hist.entries)
                                 ELSE 100) |-> hist.entries[k]]
            sent == IF hist.batchUrl.hasKeyterm
                    THEN splitEach(hist.batchUrl.keyterm, {","}) ELSE <<>>
        IN  /\ sent = want
            /\ \A k \in 1 .. Len(sent) : Len(sent[k]) > 0 /\ Len(sent[k]) <= 50

C17_Witness ==
    /\ hist.batchUrl.built
    /\ rq.query.language = <<"e", "n">>
    /\ Len(hist.entries) = 150
    /\ Len(splitEach(hist.batchUrl.keyterm, {","})) = 100

\* C18 (as stated): when the language is 'auto' or not given, no keyterm
\* parameter is sent to the vendor, whatever the hint, on the batch URL and
\* on the streaming URL alike.
C18_NoKeytermWithoutLanguage ==
    rq.query.language \in {<<>>, auto} =>
        /\ hist.batchUrl.built => ~hist.batchUrl.hasKeyterm
        /\ hist.streamUrl.built => ~hist.streamUrl.hasKeyterm

\* C19 (as stated): stripCleanMarkers is idempotent; applying it to its own
\* result changes nothing.
C19_StripIdempotent ==
    MainAt("restripped") => hist.twice = rq.correctedText

\* C20: a rejected streaming handshake opens no session.  When the upgrade
\* header is missing, the client IP is blocked, no identifier is given or
\* identity resolution fails, the pre-flight answers 426, 403 or 401 and the
\* route is never entered: no upstream connection is created, no ready event
\* is sent and nothing is billed.
C20_RejectedHandshakeOpensNothing ==
    (rq.endpoint = STREAMING
        /\ (hist.denied \in {"ipblock", "auth"} \/ rq.response.status = 426)) =>
        /\ MainAt("done")
        /\ rq.response.status =
             (CASE hist.denied = "ipblock" -> 403
                [] hist.denied = "auth" -> 401
                [] OTHER -> 426)
        /\ ws = NoSession
        /\ hist.vendorCalls = <<>>
        /\ hist.deductCalls = <<>>
        /\ ~Billed

C20_Witness ==
    /\ rq.endpoint = STREAMING
    /\ hist.denied = "auth"
    /\ rq.response = [status |-> 401, error |-> "Unauthorized", credits |-> 0,
                      requestId |-> FALSE]
    /\ MainAt("done")

\* C21 (as stated): while a cache entry for the license key exists, a
\* validateAuth call without forced refresh is decided from the cache and
\* makes no call to the remote license authority.
C21_ExistingEntryDecides ==
    \A i \in 1 .. Len(hist.auth) :
        LET call == hist.auth[i] IN
        (~call.forceRefresh /\ call.cacheRead # "none" /\ call.entry.exists) =>
            /\ call.remote = "none"
            /\ call.result # "none" =>
                 call.result = IF call.entry.isValid THEN "ok" ELSE "InvalidLicense"

\* C21 (amended): the same when the store command reading the entry
\* succeeds; then the call fails with InvalidLicense on an isValid = false
\* entry and returns a licensed identity with the cached credits otherwise.
C21_CacheHitDecides ==
    \A i \in 1 .. Len(hist.auth) :
        LET call == hist.auth[i] IN
        (~call.forceRefresh /\ call.cacheRead = "hit") =>
            /\ call.entry.exists
            /\ call.remote = "none"
            /\ ~call.written.exists
            /\ call.result = IF call.entry.isValid THEN "ok" ELSE "InvalidLicense"
            /\ i = thisCall =>
                 IF call.entry.isValid
                 THEN /\ rq.auth = licensedAuth(call.entry.credits)
                      /\ MainAt(afterAuth(rq.endpoint))
                 ELSE /\ rq.response.status = 401
                      /\ rq.auth = NoAuth
                      /\ MainAt(afterAuthFailed)

C21_Witness ==
    /\ Len(hist.auth) = 2
    /\ hist.auth[1].remote = "valid" /\ hist.auth[1].written.exists
    /\ hist.auth[1].result = "ok"
    /\ hist.auth[2].cacheRead = "hit" /\ hist.auth[2].result = "ok"

\* C22 (as stated): when the remote license-validation call throws,
\* validateAuth fails with InvalidLicense and an isValid = false entry is
\* written to the license cache under the fixed TTL.
C22_ThrowCachesInvalid ==
    \A i \in 1 .. Len(hist.auth) :
        LET call == hist.auth[i] IN
        (call.remote = "threw" /\ call.result # "none") =>
            /\ call.result = "InvalidLicense"
            /\ call.written = [exists |-> TRUE, isValid |-> FALSE, credits |-> 0,
                               ex |-> LICENSE_CACHE_TTL_SECONDS]

\* C22 (amended): when the remote call throws, validateAuth fails with
\* InvalidLicense; unless the store command writing it fails, an
\* isValid = false entry with the fixed TTL is cached, and the next call that
\* finds an entry finds that one and is rejected from the cache.
C22_ThrowFailsClosed ==
    \A i \in 1 .. Len(hist.auth) :
        LET call == hist.auth[i] IN
        (call.remote = "threw" /\ call.result # "none") =>
            /\ call.result = "InvalidLicense"
            /\ i = thisCall =>
                 /\ rq.response.status = 401
                 /\ rq.auth = NoAuth
                 /\ MainAt(afterAuthFailed)
            /\ call.written.exists =>
                 /\ call.written = [exists |-> TRUE, isValid |-> FALSE, credits |-> 0,
                                    ex |-> LICENSE_CACHE_TTL_SECONDS]
                 /\ (i < Len(hist.auth) /\ hist.auth[i + 1].cacheRead = "hit") =>
                      /\ hist.auth[i + 1].entry = call.written
                      /\ hist.auth[i + 1].remote = "none"
                      /\ hist.auth[i + 1].result = "InvalidLicense"

C22_Witness ==
    /\ Len(hist.auth) = 2
    /\ hist.auth[1].remote = "threw" /\ hist.auth[1].written.exists
    /\ hist.auth[2].cacheRead = "hit" /\ hist.auth[2].result = "InvalidLicense"
    /\ rq.response.status = 401

\* C23: the rate-limit check fails closed.  When the store read of the IP's
\* daily usage fails, checkRateLimit returns allowed = false with the whole
\* daily allocation used and zero credits remaining, validateCredits rejects
\* the trial request with IPRateLimited (429) and no vendor is called.
C23_RateLimitFailsClosed ==
    hist.ipReadFailed =>
        /\ hist.rateLimit = [allowed |-> FALSE, creditsUsed |-> DAILY_FREE_CREDITS,
                             creditsRemaining |-> 0]
        /\ rq.auth.type = "trial"
        /\ ~hist.validated
        /\ hist.decision = "IPRateLimited"
        /\ rq.response.status = 429
        /\ MainAt("done")
        /\ hist.vendorCalls = <<>>
        /\ hist.deductCalls = <<>>
        /\ ~Billed

\* C23 witness: the device had credits for the request and the IP had used
\* nothing, yet the failed read denied it
C23_Witness ==
    /\ hist.ipReadFailed
    /\ ~ipUsage.exists
    /\ deviceAdmits(bal[R]["main"], rq.estimatedCredits)
    /\ rq.response.status = 429

\* C24: a store outage does not deny licensed callers.  When the read of the
\* license cache fails it is treated as a miss and the authority is asked;
\* when the authority validates the key, the caller is authenticated with
\* the credits it reported whether or not the cache write succeeds, is never
\* refused as a blocked IP (the lookup fails open), is admitted by
\* validateCredits when that balance covers the estimate, and its request
\* then ends only as the vendor call ends (200, or 500 on a vendor failure).
C24_OutageServesLicensed ==
    (Len(hist.auth) = 1 /\ hist.auth[1].cacheRead = "failed"
        /\ rq.endpoint \in Endpoints /\ ~MainAt("auth_cache")) =>
        LET call == hist.auth[1]
            http == rq.endpoint # STREAMING
            covered == roundToTenth(call.reported)
                           >= estimateFor(rq.endpoint, rq.contentLength)
        IN  /\ hist.denied # "ipblock"
            /\ call.result # "none" => call.remote # "none"
            /\ (call.remote = "valid" /\ call.result # "none") =>
                 /\ call.result = "ok"
                 /\ rq.auth = licensedAuth(call.reported)
                 /\ hist.denied # "auth"
                 /\ hist.ipLookups = 0 /\ hist.devLookups = 0
                 /\ (http /\ hist.decision # "none") =>
                      (hist.decision = "ok") = covered
                 /\ (covered \/ ~http) =>
                      /\ hist.denied = "none"
                      /\ (http /\ MainAt("done")) =>
                           /\ rq.response.status \in {200, 500}
                           /\ hist.calls # <<>> \/ hist.roles # <<>>

\* C24 witness: the IP is blocked, yet with every store command of the
\* request failing the licensed caller was served
C24_Witness ==
    /\ ipBlocked
    /\ Len(hist.auth) = 1
    /\ hist.auth[1].cacheRead = "failed"
    /\ hist.auth[1].remote = "valid"
    /\ ~hist.auth[1].written.exists
    /\ rq.endpoint = "/transcribe"
    /\ Served

\* a step of a deduction already started
DeductionStep ==
    \E th \in {"dev", "ip"} : pc[R][th] # "idle" /\ pc'[R][th] # pc[R][th]

\* C25: billing-side errors are never surfaced.  The response (status, body,
\* headers; the session_complete event of a streaming session) is complete
\* when deductCredits is called; no step of the deduction, whether its store
\* commands and the usage-recording request succeed or fail, changes it or
\* the route's position, and the promise of deductCredits never rejects.
C25_BillingNeverSurfaces ==
    [][DeductionStep =>
         /\ rq'.response = rq.response
         /\ rq'.result = rq.result
         /\ rq'.providerName = rq.providerName
         /\ rq'.providerUsed = rq.providerUsed
         /\ rq'.correctedText = rq.correctedText
         /\ rq'.costUsd = rq.costUsd
         /\ ws' = ws
         /\ pc'[R]["main"] = pc[R]["main"]
         /\ \A th \in {"dev", "ip"} : pc'[R][th] # "rejected"]_vars

\* C25 witness: a trial request was served and charged, and its deduction
\* has ended with the device-balance write failed and no IP-usage write
C25_Witness ==
    /\ Served
    /\ rq.auth.type = "trial"
    /\ hist.deductCalls # <<>>
    /\ amt[R] > 0
    /\ BillingIdle
    /\ storeErr
    /\ nDeducted = 0
    /\ hist.ipWrites = 0

\* C26: on POST /transcribe and POST /post-process every vendor or extraction
\* failure that the retry/fallback policy does not recover ends in a
\* server-error response that carries the request's id.
C26_ServerErrorCarriesRequestId ==
    (rq.endpoint \in {"/transcribe", "/post-process"} /\ rq.response.status = 500)
        => rq.response.requestId

\* the session is Closed: both sockets are closed or closing at the server's
\* end and endSession ran once, with session_complete sent if the client
\* socket was open when it ran
Closed ==
    /\ ws.deepgramWs = "closed"
    /\ ws.sessionEnded
    /\ ws.endRuns = 1
    /\ ws.endedAt = 1 => (ws.sessionComplete = 1 /\ ws.clientReadyState \in {2, 3})
    /\ ws.endedAt # 1 => (ws.sessionComplete = 0 /\ ws.clientReadyState = 3)
    /\ "deepgram" \notin ws.closePending

\* C27: after a 'stop' control message handled while the upstream socket is
\* open, the upstream close is initiated and, if its close event is
\* delivered, the session reaches Closed: endSession ran once, the client
\* was sent session_complete if its socket was open, and the server has
\* closed the client socket.
C27_StopLeadsToClosed ==
    /\ [](ws.stopped => ws.deepgramWs \in {"closing", "closed"})
    /\ (ws.stopped ~> Closed)

\* C27 witness: a stopped session is Closed with session_complete sent and
\* the client socket closing at the server's request
C27_Witness ==
    /\ ws.stopped
    /\ Closed
    /\ ws.sessionComplete = 1
    /\ ws.clientReadyState = 2
    /\ ws.totalDurationSeconds > 0

\* C28: a vendor connection error does not end the session.  On an upstream
\* 'error' event the client, if its socket is open, is sent an error event;
\* endSession does not run and nothing is billed.  endSession runs only in
\* the step in which the client socket or the upstream socket closes.
C28_ErrorDoesNotEndSession ==
    [][/\ ws'.upstreamErrors > ws.upstreamErrors =>
            /\ ws'.errorsSent = IF ws.clientReadyState = 1 THEN ws.errorsSent + 1
                                ELSE ws.errorsSent
            /\ ws'.sessionEnded = ws.sessionEnded
            /\ ws'.endRuns = ws.endRuns
            /\ ws'.sessionComplete = ws.sessionComplete
            /\ hist' = hist /\ pc' = pc /\ amt' = amt
       /\ ws'.endRuns > ws.endRuns =>
            \/ ws.clientReadyState # 3 /\ ws'.clientReadyState = 3
            \/ ws.deepgramWs # "closed" /\ ws'.deepgramWs = "closed"]_vars

\* C28 witness: after an upstream error with billable audio received the
\* client has its error event, and the session is neither ended nor billed
C28_Witness ==
    /\ ws.upstreamErrors = 1
    /\ ws.errorsSent = 1
    /\ ws.totalDurationSeconds >= 30000
    /\ ~ws.sessionEnded
    /\ ws.endRuns = 0
    /\ hist.deductCalls = <<>>
    /\ BillingIdle

\* C29: when the session ends with the client socket open the client is
\* sent exactly one session_complete, carrying the accumulated duration and
\* the credits charged, before the deduction is started and before the
\* server closes the client socket; no transcript, ready or ping event is
\* sent after it; when the client socket is closed, none is sent.
C29_OneSessionComplete ==
    /\ [](/\ ws.endedAt = 1 => ws.sessionComplete = 1
          /\ ws.endedAt # 1 => ws.sessionComplete = 0
          /\ ws.afterComplete = {})
    /\ [][ws'.sessionComplete > ws.sessionComplete =>
            /\ ws.sessionComplete = 0
            /\ ws'.completeEvent.duration_seconds = ws.totalDurationSeconds
            /\ ws'.completeEvent.credits_used = creditsForCost(
                   computeDeepgramTranscriptionCost(ws.totalDurationSeconds))
            /\ hist.deductCalls = <<>>
            /\ hist'.deductCalls # <<>> => amt'[R] = ws'.completeEvent.credits_used
            /\ ws.clientReadyState = 1 /\ ws'.clientReadyState = 1]_vars

\* C29 witness: a session that was sent ready and a ping and received billable
\* audio was ended by the upstream close; session_complete was sent, the
\* deduction started and the server closed the client socket
C29_Witness ==
    /\ ws.sessionComplete = 1
    /\ ws.completeEvent.duration_seconds >= 30000
    /\ ws.completeEvent.credits_used > 0
    /\ hist.deductCalls # <<>>
    /\ ws.pings = 1
    /\ ws.ready = 1
    /\ ws.clientReadyState = 2

\* C30: the ready event is sent at most once per session, only in the step
\* in which the upstream socket opens, and carries the session's request
\* id; none is sent when the vendor credential is missing or while the
\* upstream socket has not opened.
C30_ReadyOnceAfterOpen ==
    /\ [](/\ ws.ready <= 1
          /\ ws.deepgramWs \in {"null", "connecting"} => ws.ready = 0
          /\ ~ws.credential => ws.ready = 0)
    /\ [][ws'.ready > ws.ready =>
            /\ ws.ready = 0
            /\ ws.deepgramWs = "connecting" /\ ws'.deepgramWs = "open"
            /\ ws'.readySessionId = requestId]_vars

\* C30 witness: the upstream socket has just opened and the client has its
\* ready event
C30_Witness ==
    /\ ws.ready = 1
    /\ ws.deepgramWs = "open"
    /\ ws.credential
    /\ ws.readySessionId = requestId
    /\ ws.msgsSeen = 0

\* C31: every binary frame received from the client while the upstream
\* socket is open is forwarded upstream exactly once and in arrival order;
\* a frame received while the upstream socket is not open is dropped and
\* never forwarded later.
C31_FramesRelayedInOrder ==
    /\ [](ws.forwarded = ws.openFrames)
    /\ [][/\ ws'.framesIn > ws.framesIn =>
               ws'.forwarded = IF ws.deepgramWs = "open"
                               THEN Append(ws.forwarded, ws'.framesIn)
                               ELSE ws.forwarded
          /\ ws'.framesIn = ws.framesIn => ws'.forwarded = ws.forwarded]_vars

\* C31 witness: of two frames the first came while the upstream socket was
\* connecting and was dropped, the second came when it was open
C31_Witness ==
    /\ ws.framesIn = 2
    /\ ws.forwarded = <<2>>
    /\ ws.deepgramWs = "open"

\* C32: ignored messages change nothing.  A client pong, another JSON text
\* frame or a text frame that is not JSON, and an upstream message that is
\* malformed or is not a Results message, leave the accumulated duration,
\* the ended flag and both sockets as they were, and nothing is sent to the
\* client or upstream.
C32_IgnoredChangesNothing ==
    [][ws'.ignored > ws.ignored =>
         /\ ws' = [ws EXCEPT !.ignored = @ + 1]
         /\ pc' = pc /\ hist' = hist /\ amt' = amt]_vars

\* C32 witness: a message was ignored in a session that has billable audio
\* and both sockets open
C32_Witness ==
    /\ ws.ignored = 1
    /\ ws.totalDurationSeconds >= 30000
    /\ ws.deepgramWs = "open"
    /\ ws.clientReadyState = 1
    /\ ~ws.sessionEnded

\* C33: callWithRetry always terminates.  It makes at most maxRetries + 1
\* attempts, returns at the first attempt that succeeds, waits 1000 * 2^k ms
\* after failed attempt k (counted from 0) before the next one, and after
\* the last failed attempt throws that attempt's error.
C33_RetryTerminates ==
    /\ <>(pc[R]["main"] \in {"returned", "threw"})
    /\ [](LET n == Len(hist.attempts) IN
          /\ n <= rq.maxRetries + 1
          /\ \A i \in 1 .. n : ~hist.attempts[i].thrown =>
                 (i = n /\ pc[R]["main"] = "returned")
          /\ pc[R]["main"] = "returned" => (n >= 1 /\ ~hist.attempts[n].thrown)
          /\ pc[R]["main"] = "threw" =>
                 /\ n = rq.maxRetries + 1
                 /\ hist.rethrown = hist.attempts[n]
                 /\ hist.rethrown.thrown
          /\ hist.delays =
                 [k \in 1 .. (IF pc[R]["main"] = "llm" THEN n ELSE n - 1) |->
                     1000 * 2 ^ (k - 1)])

\* C33 witness: with a cap of 3 the fourth attempt failed too and its error
\* was thrown, after waits of 1, 2 and 4 seconds
C33_Witness ==
    /\ pc[R]["main"] = "threw"
    /\ rq.maxRetries = 3
    /\ Len(hist.attempts) = 4
    /\ hist.delays = <<1000, 2000, 4000>>
    /\ hist.rethrown = httpError(503)

\* the usage-recording request of the deduction is answered
UsageAnswered == pc[R]["dev"] = "l_post" /\ pc'[R]["dev"] # "l_post"

\* the cache write of the deduction is made
UsageCached == pc[R]["dev"] = "l_cache" /\ pc'[R]["dev"] # "l_cache"

\* the entry recordLicenseUsage gives to cacheLicense
reportedEntry ==
    [exists |-> TRUE, isValid |-> TRUE, credits |-> rq.validation.credits,
     ex |-> LICENSE_CACHE_TTL_SECONDS]

\* C34 (as stated): for a licensed caller a non-zero deduction sends exactly
\* one usage-recording request; if it fails the cached license entry is
\* left unchanged, and if it succeeds with a numeric remaining balance the
\* cache entry is replaced by a valid entry holding that balance under the
\* fixed TTL.
C34_UsageRecordedAndCached ==
    /\ [](hist.remotePosts <= 1)
    /\ []((rq.auth.type = "licensed" /\ hist.deductCalls # <<>> /\ amt[R] > 0)
             => hist.remotePosts = 1)
    /\ [][/\ UsageAnswered => licCache' = licCache
          /\ UsageCached => licCache' = reportedEntry]_vars

\* C34 (amended): ... and if it succeeds with a numeric remaining balance
\* one cache write of a valid entry holding that balance under the fixed TTL
\* is attempted: the entry is replaced when the store write succeeds and is
\* left as it was when it fails.
C34_UsageRecordedCacheAttempted ==
    /\ [](hist.remotePosts <= 1)
    /\ []((rq.auth.type = "licensed" /\ hist.deductCalls # <<>> /\ amt[R] > 0)
             => hist.remotePosts = 1)
    /\ [][/\ UsageAnswered => licCache' = licCache
          /\ UsageAnswered /\ pc'[R]["dev"] # "l_cache" => pc'[R]["dev"] = "idle"
          /\ UsageCached => (licCache' \in {reportedEntry, licCache}
                              /\ pc'[R]["dev"] = "idle")]_vars

\* C34 witness: a licensed deduction sent its one request and the cached
\* balance is now the one the remote ledger reported
C34_Witness ==
    /\ rq.auth.type = "licensed"
    /\ amt[R] > 0
    /\ hist.remotePosts = 1
    /\ BillingIdle
    /\ rq.auth.credits = 5000
    /\ licCache = [exists |-> TRUE, isValid |-> TRUE, credits |-> 96,
                   ex |-> LICENSE_CACHE_TTL_SECONDS]

\* C35 (as stated): the starting allocation is granted to a device id at
\* most once.  After a balance record has been written, no step of
\* getDeviceBalance / initializeDevice, whatever it raced with, replaces the
\* record by the full starting allocation (here: with no store command
\* having failed).
C35_AllocationGrantedOnce ==
    [][(deviceRec.exists /\ deviceRec' # deviceRec /\ ~storeErr')
          => deviceRec' # initialBalance]_vars

\* C36 (as stated): a store read failure during a deduction leaves the
\* stored device balance unchanged.  When the read inside
\* deductDeviceCredits has failed and getDeviceBalance has returned its
\* fail-closed placeholder, the deduction's write does not replace a record
\* that has credits left (or create one) from that placeholder.
C36_PlaceholderNeverWritten ==
    [][\A p \in Procs :
         (/\ pc[p]["dev"] = "d_set" /\ pc'[p]["dev"] # "d_set"
          /\ bal[p]["dev"] = failClosedBalance
          /\ ~deviceRec.exists \/ deviceRec.credits_remaining > 0)
            => deviceRec' = deviceRec]_vars

\* C37 (as stated): whenever the client socket closes, the session closes
\* the upstream socket whatever its state at that moment: when onClose has
\* run to its end, an upstream socket that was connecting or open has had
\* its close initiated.
C37_ClientCloseClosesUpstream ==
    [][("client" \in ws.closePending /\ "client" \notin ws'.closePending
          /\ ws.deepgramWs \in {"connecting", "open"})
         => ws'.deepgramWs = "closing"]_vars

\* C38 (as stated): no billable streaming usage is lost at close.  Once the
\* upstream socket has closed, the amount handed to deductCredits is the cost
\* of every Results duration the vendor delivered, those delivered between
\* the client's close and the upstream close included.
C38_AllDurationsBilled ==
    (ws.deepgramWs = "closed" /\ ws.sessionEnded) =>
        LET costUsd == computeDeepgramTranscriptionCost(ws.totalDurationSeconds) IN
        hist.deductCalls = IF billsSession(creditsForCost(costUsd)) THEN <<costUsd>>
                           ELSE <<>>

\* quota used according to the store, in cc
storedUsage == roundToTenth(IF ipUsage.exists THEN parseFloat(ipUsage.value) ELSE 0)

\* C39 (as stated): the per-IP daily quota holds under concurrency.  Two
\* trial requests from one IP, both admitted and neither's usage recorded
\* yet, never have estimates that together exceed the quota remaining.
C39_QuotaHoldsUnderConcurrency ==
    \A p, q \in Procs :
        (p # q /\ pc[p]["ip"] = "q_serve" /\ pc[q]["ip"] = "q_serve") =>
            storedUsage + amt[p] + amt[q] <= DAILY_FREE_CREDITS

\* the terms of a keyterm parameter, in order, without the ":1.5" boost
\* the streaming URL appends to each
keytermList(url) ==
    LET sent == IF url.hasKeyterm THEN splitEach(url.keyterm, {","}) ELSE <<>>
        boost == <<":", "1", ".", "5">>
        plain(t) == IF Len(t) >= 4 /\ SubSeq(t, Len(t) - 3, Len(t)) = boost
                    THEN SubSeq(t, 1, Len(t) - 4) ELSE t
    IN  [k \in 1 .. Len(sent) |-> plain(sent[k])]

\* C40 (as stated): the streaming endpoint and the batch endpoint agree on
\* vocabulary.  For the same specific language and the same hint text the
\* streaming URL carries the same ordered list of terms as the batch URL.
C40_EndpointsAgreeOnVocabulary ==
    /\ hist.batchUrl.built /\ hist.streamUrl.built
    /\ rq.query.language # <<>> /\ toLowerCase(rq.query.language) # auto
    => keytermList(hist.streamUrl) = keytermList(hist.batchUrl)

====
